---- MODULE Spec2Model ----
(***************************************************************************)
(* Model of the archival-history analysis engine of                        *)
(* src/app/services/report_service.py: ReportService.safe_request,         *)
(* ReportService.analyze_domain and ReportService.generate_report.         *)
(*                                                                         *)
(* Conventions.  A Python value that may be None is a set: None is {} and  *)
(* a present value v is {v}.  A Python str that the code sorts or parses   *)
(* (a CDX timestamp) is the sequence of its code points, so that string    *)
(* order and strptime are computed, not assumed.  A dict is a function     *)
(* whose DOMAIN is its key set.                                            *)
(***************************************************************************)
EXTENDS Integers, Sequences, FiniteSets, TLC

\* ------------------------------------------------------------ bounds
MaxDomains == 3
MaxConc == 2
MaxRows == 3

\* ------------------------------------------------- program constants
RETRY_DELAY == 2
RETRY_COUNT == 3
MAX_OFFSET == 50000

\* ------------------------------------------------------ Python values
None == {}
Some(v) == {v}
IsNone(x) == x = {}
Val(x) == CHOOSE v \in x : TRUE

Min2(a, b) == IF a <= b THEN a ELSE b

\* A list comprehension [e for i in ...]: the list of its values, each
\* computed once when the list is built.
List(f) == SubSeq(f, 1, Len(f))

\* ------------------------------------------------------------ strings
\* Code points of the characters the timestamps below are made of.
ChSpace == 32
IsDigit(c) == c \in 48..57
DigitVal(c) == c - 48
Digits2(n) == << 48 + (n \div 10), 48 + (n % 10) >>
Digits4(n) == Digits2(n \div 100) \o Digits2(n % 100)

\* str < str of Python: code point by code point, a proper prefix is smaller.
StrLess(a, b) ==
  \E i \in 1..(Min2(Len(a), Len(b)) + 1) :
     /\ \A j \in 1..(i - 1) : a[j] = b[j]
     /\ IF i <= Len(a) /\ i <= Len(b) THEN a[i] < b[i]
        ELSE i > Len(a) /\ i <= Len(b)

\* sorted(list of str): the element at index i goes to the position that
\* counts the elements before it, which are the smaller ones and, sorted()
\* being stable, the equal ones at a lower index.
Sorted(s) ==
  LET n == Len(s)
      before(j, i) == StrLess(s[j], s[i]) \/ (j < i /\ ~StrLess(s[i], s[j]))
      rank == List([i \in 1..n |-> Cardinality({j \in 1..n : before(j, i)}) + 1])
  IN  List([k \in 1..n |-> s[CHOOSE i \in 1..n : rank[i] = k]])

\* -------------------------------------------------------------- dates
IsLeap(y) == (y % 4 = 0 /\ y % 100 # 0) \/ y % 400 = 0

DaysInMonth(y, m) ==
  IF m = 2 THEN (IF IsLeap(y) THEN 29 ELSE 28)
  ELSE IF m \in {4, 6, 9, 11} THEN 30 ELSE 31

RECURSIVE DaysBeforeMonth(_, _)
DaysBeforeMonth(y, m) ==
  IF m = 1 THEN 0 ELSE DaysBeforeMonth(y, m - 1) + DaysInMonth(y, m - 1)

\* datetime.toordinal(): days since 0001-01-01 (which is day 1).
Ordinal(dt) ==
  LET y == dt.year - 1
  IN  365 * y + (y \div 4) - (y \div 100) + (y \div 400)
      + DaysBeforeMonth(dt.year, dt.month) + dt.day

SecondOfDay(dt) == dt.hour * 3600 + dt.minute * 60 + dt.second

\* (a - b).days of two datetimes: timedelta normalises to 0 <= seconds < 86400,
\* so .days is the floor of the difference in days.
DeltaDays(a, b) ==
  (Ordinal(a) - Ordinal(b)) + ((SecondOfDay(a) - SecondOfDay(b)) \div 86400)

\* a <= b of two datetimes.
DateLeq(a, b) ==
  \/ Ordinal(a) < Ordinal(b)
  \/ Ordinal(a) = Ordinal(b) /\ SecondOfDay(a) <= SecondOfDay(b)

\* datetime.strptime(ts, "%Y%m%d%H%M%S") on a str of 14 characters.  CPython
\* matches the directives %Y \d\d\d\d, %m 1[0-2]|0[1-9]|[1-9],
\* %d 3[0-1]|[1-2]\d|0[1-9]|[1-9]| [1-9], %H 2[0-3]|[0-1]\d|\d, %M [0-5]\d|\d,
\* %S 6[0-1]|[0-5]\d|\d as a prefix and raises ValueError when characters are
\* left over, so 14 characters parse only when every directive takes its two
\* characters (four for %Y); the datetime constructor then rejects year 0, a
\* day beyond the month's length and a second above 59.  The result is None
\* for ValueError and Some(datetime) otherwise.
StrpTime(ts) ==
  LET two(i) == DigitVal(ts[i]) * 10 + DigitVal(ts[i + 1])
      okY == \A i \in 1..4 : IsDigit(ts[i])
      okm == \/ ts[5] = 49 /\ ts[6] \in 48..50
             \/ ts[5] = 48 /\ ts[6] \in 49..57
      okd == \/ ts[7] = 51 /\ ts[8] \in 48..49
             \/ ts[7] \in 49..50 /\ IsDigit(ts[8])
             \/ ts[7] = 48 /\ ts[8] \in 49..57
             \/ ts[7] = ChSpace /\ ts[8] \in 49..57
      okH == \/ ts[9] = 50 /\ ts[10] \in 48..51
             \/ ts[9] \in 48..49 /\ IsDigit(ts[10])
      okM == ts[11] \in 48..53 /\ IsDigit(ts[12])
      okS == \/ ts[13] = 54 /\ ts[14] \in 48..49
             \/ ts[13] \in 48..53 /\ IsDigit(ts[14])
      year == two(1) * 100 + two(3)
      month == two(5)
      day == IF ts[7] = ChSpace THEN DigitVal(ts[8]) ELSE two(7)
      second == two(13)
  IN  IF ~(okY /\ okm /\ okd /\ okH /\ okM /\ okS) THEN None
      ELSE IF year < 1 \/ day > DaysInMonth(year, month) \/ second > 59 THEN None
      ELSE Some([year |-> year, month |-> month, day |-> day,
                 hour |-> two(9), minute |-> two(11), second |-> second])


\* -------------------------------------------------------- JSON values
\* A decoded JSON value or a response text carries its Python type in t:
\* "dict" (d: the dict), "list" (items), "str" (blank: the text is empty,
\* webCount: the number of occurrences of "web/"), "bool" (b).
JDict(f) == [t |-> "dict", d |-> f]
JList(s) == [t |-> "list", items |-> s]
JStr(blank, n) == [t |-> "str", blank |-> blank, webCount |-> n]
JBool(b) == [t |-> "bool", b |-> b]
EmptyDict == << >>

\* bool(v) of Python for the values above.
Truthy(v) ==
  CASE v.t = "dict" -> DOMAIN v.d # {}
    [] v.t = "list" -> v.items # << >>
    [] v.t = "str" -> ~v.blank
    [] v.t = "bool" -> v.b

\* d.get(k) and d.get(k, {}) of a dict value: None is {}.
DictGet(v, k) == IF k \in DOMAIN v.d THEN Some(v.d[k]) ELSE None
DictGetOrEmpty(v, k) == IF k \in DOMAIN v.d THEN v.d[k] ELSE JDict(EmptyDict)

\* ------------------------------------------------------- safe_request
\* What one HTTP attempt meets.  "ok" is a response that passes
\* raise_for_status: ctJson says that its Content-Type holds application/json,
\* blank that its text is empty after strip(), valid that json.loads accepts
\* it, json the decoded value and text the body as a str.  "http" is a
\* response with an error status; "timeout", "client" and "other" are
\* asyncio.TimeoutError, aiohttp.ClientError and any other exception.
OkResp(ctJson, blank, valid, json, text) ==
  [kind |-> "ok", ctJson |-> ctJson, blank |-> blank, valid |-> valid,
   json |-> json, text |-> text]
HttpError(status) == [kind |-> "http", status |-> status]
Failure(kind) == [kind |-> kind]

\* asyncio.sleep calls made for attempt `attempt` that ended with outcome o
\* and did not return: the handler's own sleep (lines 65-69), then the sleep
\* at the end of the loop body (lines 87-88).
HandlerSleep(o, attempt) ==
  IF o.kind = "http" /\ o.status = 429 THEN RETRY_DELAY * attempt * 2
  ELSE IF o.kind = "http" /\ o.status >= 500 THEN RETRY_DELAY * attempt
  ELSE 0

LoopSleep(attempt) == IF attempt < RETRY_COUNT THEN RETRY_DELAY * attempt ELSE 0

\* Handler without the clause of line 83.
HandlerWithoutCatchAll(o) ==
  CASE o.kind = "ok" -> "JSONDecodeError"
    [] o.kind = "http" -> "ClientResponseError"
    [] o.kind = "timeout" -> "TimeoutError"
    [] o.kind = "client" -> "ClientError"
    [] OTHER -> "none"

\* The except clause that catches what the attempt raises (lines 57, 63, 73,
\* 78, 83): the first in order whose class the exception is an instance of,
\* and `except Exception` catches every exception the others do not.  A
\* response raises nothing but the JSONDecodeError of json.loads.
Handler(o) ==
  CASE o.kind = "ok" -> "JSONDecodeError"
    [] o.kind = "http" -> "ClientResponseError"
    [] o.kind = "timeout" -> "TimeoutError"
    [] o.kind = "client" -> "ClientError"
    [] OTHER -> "Exception"

\* AttemptReturn giving up at the first timeout.
AttemptReturnNoRetryOnTimeout(o, outJson, attempt) ==
  CASE o.kind = "ok" /\ (outJson \/ o.ctJson) ->
         IF o.blank THEN << TRUE, None >>
         ELSE IF o.valid THEN << TRUE, Some(o.json) >>
         ELSE IF attempt = RETRY_COUNT THEN << TRUE, None >>
         ELSE << FALSE, None >>
    [] o.kind = "ok" /\ ~(outJson \/ o.ctJson) -> << TRUE, Some(o.text) >>
    [] o.kind = "http" ->
         IF o.status # 429 /\ o.status < 500 /\ attempt = RETRY_COUNT
         THEN << TRUE, None >> ELSE << FALSE, None >>
    [] o.kind = "timeout" -> << TRUE, None >>
    [] OTHER ->
         IF attempt = RETRY_COUNT THEN << TRUE, None >> ELSE << FALSE, None >>

\* The value one attempt returns from safe_request: << TRUE, value >> when the
\* attempt executes a return statement, << FALSE, None >> when the loop goes on.
AttemptReturn(o, outJson, attempt) ==
  CASE o.kind = "ok" /\ (outJson \/ o.ctJson) ->
         IF o.blank THEN << TRUE, None >>
         ELSE IF o.valid THEN << TRUE, Some(o.json) >>
         ELSE IF attempt = RETRY_COUNT THEN << TRUE, None >>
         ELSE << FALSE, None >>
    [] o.kind = "ok" /\ ~(outJson \/ o.ctJson) -> << TRUE, Some(o.text) >>
    [] o.kind = "http" ->
         IF o.status # 429 /\ o.status < 500 /\ attempt = RETRY_COUNT
         THEN << TRUE, None >> ELSE << FALSE, None >>
    [] OTHER ->
         IF attempt = RETRY_COUNT THEN << TRUE, None >> ELSE << FALSE, None >>

\* safe_request from attempt `attempt` on, against a script that gives the
\* outcome of each attempt; outJson is params["output"] == "json".  The
\* result holds the returned value, the attempts made and the seconds slept.
RECURSIVE SafeRequestFrom(_, _, _, _)
SafeRequestFrom(script, outJson, attempt, slept) ==
  IF attempt > RETRY_COUNT
  THEN [value |-> None, attempts |-> RETRY_COUNT, slept |-> slept]
  ELSE LET o == script[attempt]
           r == AttemptReturn(o, outJson, attempt)
       IN  IF r[1] THEN [value |-> r[2], attempts |-> attempt, slept |-> slept]
           ELSE SafeRequestFrom(script, outJson, attempt + 1,
                                slept + HandlerSleep(o, attempt) + LoopSleep(attempt))

SafeRequest(script, outJson) == SafeRequestFrom(script, outJson, 1, 0)

\* ----------------------------------------------------- analyze_domain
\* Thresholds of the flags (lines 208-209).
GOOD_MAX_GAP == 365
RECOMMENDED_MIN_SNAPSHOTS == 200
RECOMMENDED_MAX_AVG == 30

StatKeys == {"first_snapshot", "last_snapshot", "avg_interval_days", "max_gap_days",
             "years_covered", "snapshots_per_year", "unique_versions"}

\* info[k] = v for every key of the dict `more` (a later assignment wins).
SetKeys(info, more) == more @@ info

\* Lines 102-109.  avail is what safe_request returned.  The condition of line
\* 102 calls .get on avail["archived_snapshots"] and line 104 calls .get on
\* closest: a value that is not a dict has no .get and the call raises
\* AttributeError, which nothing in analyze_domain catches.
AvailUsable(avail) ==
  /\ ~IsNone(avail) /\ Truthy(Val(avail)) /\ Val(avail).t = "dict"

AvailSnapshots(avail) == DictGetOrEmpty(Val(avail), "archived_snapshots")

AvailClosest(avail) == DictGet(AvailSnapshots(avail), "closest")

AvailRaises(avail) ==
  /\ AvailUsable(avail)
  /\ \/ AvailSnapshots(avail).t # "dict"
     \/ /\ ~IsNone(AvailClosest(avail))
        /\ Truthy(Val(AvailClosest(avail)))
        /\ Val(AvailClosest(avail)).t # "dict"

AvailInfo(avail) ==
  IF /\ AvailUsable(avail)
     /\ ~IsNone(AvailClosest(avail))
     /\ Truthy(Val(AvailClosest(avail)))
  THEN LET closest == Val(AvailClosest(avail))
           available == DictGet(closest, "available")
       IN  [has_snapshot |-> ~IsNone(available) /\ Truthy(Val(available)),
            availability_ts |-> DictGet(closest, "timestamp")]
  ELSE [has_snapshot |-> FALSE, availability_ts |-> None]

\* dict(zip(cols, row)) for a row as long as cols.
DictZip(cols, row) ==
  [k \in {cols[i] : i \in DOMAIN cols} |->
     row[CHOOSE i \in DOMAIN cols : cols[i] = k /\ \A j \in DOMAIN cols : cols[j] = k => j <= i]]

\* CdxIter moving the offset by one row more than the page size.
CdxIterSkippingARow(batch, records, offset, limit) ==
  LET stay(recs, off, stop) == [records |-> recs, offset |-> off, stop |-> stop]
      paged(cur) ==
        IF Len(cur) < limit THEN stay(records \o cur, offset, TRUE)
        ELSE stay(records \o cur, offset + limit + 1,
                  offset + limit + 1 > MAX_OFFSET /\ limit > 0)
  IN  IF IsNone(batch) \/ ~Truthy(Val(batch)) \/ Val(batch).t # "list"
      THEN stay(records, offset, TRUE)
      ELSE LET items == Val(batch).items
               first == items[1]
           IN  CASE first.t = "list" ->
                      IF Len(items) < 2 THEN stay(records, offset, TRUE)
                      ELSE LET cols == first.items
                               good(row) == row.t = "list" /\ Len(row.items) = Len(cols)
                               kept == SelectSeq(Tail(items), good)
                           IN  paged(List([i \in 1..Len(kept) |-> DictZip(cols, kept[i].items)]))
                 [] first.t = "dict" ->
                      LET isDict(item) == item.t = "dict"
                          kept == SelectSeq(items, isDict)
                      IN  paged(List([i \in 1..Len(kept) |-> kept[i].d]))
                 [] OTHER -> stay(records, offset, TRUE)

\* One iteration of the while loop of lines 124-165 on the batch that
\* safe_request returned: the records and the offset after it, and whether the
\* iteration left the loop.
CdxIter(batch, records, offset, limit) ==
  LET stay(recs, off, stop) == [records |-> recs, offset |-> off, stop |-> stop]
      paged(cur) ==
        IF Len(cur) < limit THEN stay(records \o cur, offset, TRUE)
        ELSE stay(records \o cur, offset + limit,
                  offset + limit > MAX_OFFSET /\ limit > 0)
  IN  IF IsNone(batch) \/ ~Truthy(Val(batch)) \/ Val(batch).t # "list"
      THEN stay(records, offset, TRUE)
      ELSE LET items == Val(batch).items
               first == items[1]
           IN  CASE first.t = "list" ->
                      IF Len(items) < 2 THEN stay(records, offset, TRUE)
                      ELSE LET cols == first.items
                               good(row) == row.t = "list" /\ Len(row.items) = Len(cols)
                               kept == SelectSeq(Tail(items), good)
                           IN  paged(List([i \in 1..Len(kept) |-> DictZip(cols, kept[i].items)]))
                 [] first.t = "dict" ->
                      LET isDict(item) == item.t = "dict"
                          kept == SelectSeq(items, isDict)
                      IN  paged(List([i \in 1..Len(kept) |-> kept[i].d]))
                 [] OTHER -> stay(records, offset, TRUE)

\* round(statistics.mean(gaps), 2) in hundredths of a day, for n = Len(gaps)
\* gaps that sum to total.  The mean lies exactly between two hundredths only
\* when 8 divides n, so below 8 gaps rounding to nearest is round().
RoundedMean100(total, n) == (200 * total + n) \div (2 * n)

\* sum(s), by halves: statistics.mean adds exactly, in any order.
RECURSIVE SumSeq(_)
SumSeq(s) ==
  IF s = << >> THEN 0
  ELSE IF Len(s) = 1 THEN s[1]
  ELSE LET h == Len(s) \div 2
       IN  SumSeq(SubSeq(s, 1, h)) + SumSeq(SubSeq(s, h + 1, Len(s)))

MaxSeq(s) == CHOOSE m \in {s[i] : i \in DOMAIN s} : \A i \in DOMAIN s : s[i] <= m

AllNone == [k \in StatKeys |-> None]

\* Lines 176-177: the timestamps that are present, sorted as strings, and of
\* those the ones of 14 characters, each parsed by strptime.
SortedTimes(records) ==
  LET hasTs(r) == "timestamp" \in DOMAIN r
      kept == SelectSeq(records, hasTs)
  IN  Sorted(List([i \in 1..Len(kept) |-> kept[i].timestamp]))

ParsedTimes(records) ==
  LET is14(t) == Len(t) = 14
      kept == SelectSeq(SortedTimes(records), is14)
  IN  List([i \in 1..Len(kept) |-> StrpTime(kept[i])])

\* Lines 181-183 on the parsed dates.
Gaps(dates) == List([i \in 1..(Len(dates) - 1) |-> DeltaDays(dates[i + 1], dates[i])])

AvgIntervalDays(gaps) ==
  IF gaps # << >> THEN RoundedMean100(SumSeq(gaps), Len(gaps)) ELSE 0

MaxGapDays(gaps) == IF gaps # << >> THEN MaxSeq(gaps) ELSE 0

\* Lines 174-201: the seven statistics.  avg_interval_days is held in
\* hundredths of a day.  A ValueError of strptime is caught at line 193.
SnapshotMetrics(records) ==
  LET parsed == ParsedTimes(records)
  IN  IF \E i \in DOMAIN parsed : IsNone(parsed[i]) THEN AllNone
      ELSE IF parsed = << >> THEN AllNone
      ELSE LET dates == List([i \in 1..Len(parsed) |-> Val(parsed[i])])
               gaps == Gaps(dates)
               years == {dates[i].year : i \in DOMAIN dates}
               hasDigest(r) == "digest" \in DOMAIN r
               withDigest == SelectSeq(records, hasDigest)
           IN  [first_snapshot |-> Some(dates[1]),
                last_snapshot |-> Some(dates[Len(dates)]),
                avg_interval_days |-> Some(AvgIntervalDays(gaps)),
                max_gap_days |-> Some(MaxGapDays(gaps)),
                years_covered |-> Some(Cardinality(years)),
                snapshots_per_year |->
                  Some([y \in years |->
                          Cardinality({i \in DOMAIN dates : dates[i].year = y})]),
                unique_versions |->
                  Some(Cardinality({withDigest[i].digest : i \in DOMAIN withDigest}))]

\* Metrics with zeroes for a domain without records.
MetricsZeroWhenEmpty(records) ==
  IF records = << >>
  THEN [k \in StatKeys |-> IF k \in {"first_snapshot", "last_snapshot", "snapshots_per_year"}
                           THEN None ELSE Some(0)]
  ELSE SnapshotMetrics(records)

Metrics(records) ==
  IF records = << >> THEN AllNone ELSE SnapshotMetrics(records)

\* Flags with a gap of a whole year still good.
FlagsGapInclusive(info) ==
  [is_good |-> /\ info.total_snapshots >= 1
               /\ ~IsNone(info.max_gap_days)
               /\ Val(info.max_gap_days) <= GOOD_MAX_GAP,
   recommended |-> /\ info.total_snapshots >= RECOMMENDED_MIN_SNAPSHOTS
                   /\ ~IsNone(info.avg_interval_days)
                   /\ Val(info.avg_interval_days) < RECOMMENDED_MAX_AVG * 100]

\* Lines 204-209.
Flags(info) ==
  [is_good |-> /\ info.total_snapshots >= 1
               /\ ~IsNone(info.max_gap_days)
               /\ Val(info.max_gap_days) < GOOD_MAX_GAP,
   recommended |-> /\ info.total_snapshots >= RECOMMENDED_MIN_SNAPSHOTS
                   /\ ~IsNone(info.avg_interval_days)
                   /\ Val(info.avg_interval_days) < RECOMMENDED_MAX_AVG * 100]

\* Line 171.
TimemapCount(tm) ==
  IF ~IsNone(tm) /\ Truthy(Val(tm)) /\ Val(tm).t = "str" THEN Val(tm).webCount ELSE 0

\* ------------------------------------------------------------ upstream
\* The archive as one domain's requests meet it: the status each endpoint
\* answers with on every attempt, and the body it sends with status 200.
MkTs(y, mo, d, h, mi, s) ==
  Digits4(y) \o Digits2(mo) \o Digits2(d) \o Digits2(h) \o Digits2(mi) \o Digits2(s)

TsA == MkTs(2019, 12, 31, 23, 59, 59)
TsB == MkTs(2020, 1, 1, 0, 0, 0)
TsC == MkTs(2022, 6, 15, 12, 0, 0)
\* "202001 5000000": strptime reads the day " 5"; as a string it sorts before
\* every timestamp of January 2020 written with digits.
TsSpaceDay == Digits4(2020) \o Digits2(1) \o << ChSpace, 53 >> \o Digits2(0) \o Digits2(0) \o Digits2(0)
\* 14 characters that strptime rejects (month 13), and a short timestamp.
TsBad == MkTs(2020, 13, 1, 0, 0, 0)
TsShort == Digits4(2020)

Header == JList(<< "timestamp", "original", "digest" >>)
Row(ts, original, digest) == JList(<< ts, original, digest >>)
\* A row with the wrong number of fields.
ShortRow == JList(<< TsC >>)

RowPool ==
  { Row(TsA, "u1", "d1"), Row(TsB, "u1", "d1"), Row(TsC, "u2", "d2"),
    Row(TsSpaceDay, "u1", "d2"), Row(TsBad, "u1", "d1"), Row(TsShort, "u1", "d1"),
    ShortRow }

RowSeqs == UNION { [1..k -> RowPool] : k \in 0..MaxRows }

AvClosest ==
  JDict([url |-> JStr(FALSE, 0),
         archived_snapshots |->
           JDict([closest |-> JDict([available |-> JBool(TRUE),
                                     timestamp |-> JStr(FALSE, 0)])])])
AvNoClosest == JDict([url |-> JStr(FALSE, 0), archived_snapshots |-> JDict(EmptyDict)])
\* archived_snapshots is a JSON array, not an object.
AvNotDict == JDict([url |-> JStr(FALSE, 0), archived_snapshots |-> JList(<< >>)])

AvailPool ==
  { [status |-> 500, body |-> AvNoClosest], [status |-> 200, body |-> AvClosest],
    [status |-> 200, body |-> AvNoClosest], [status |-> 200, body |-> AvNotDict] }

TimemapPool ==
  { [status |-> 500, count |-> 0], [status |-> 200, count |-> 200],
    [status |-> 200, count |-> 201] }

PageSizes == {1, 2}

Ups ==
  [avail : AvailPool, cdxStatus : {200}, rows : RowSeqs, timemap : TimemapPool]
  \cup [avail : AvailPool, cdxStatus : {500}, rows : {<< >>}, timemap : TimemapPool]

JsonOk(v) == OkResp(TRUE, FALSE, TRUE, v, JStr(FALSE, 0))
TextOk(text) == OkResp(FALSE, text.blank, FALSE, JBool(FALSE), text)

\* The script safe_request meets: the same answer on each attempt.
Script(status, ok) ==
  [a \in 1..RETRY_COUNT |-> IF status = 200 THEN ok ELSE HttpError(status)]

\* The capture index answers offset and limit with the header row and the
\* rows offset+1 .. offset+limit it holds, and with [] beyond its last row.
CdxBody(rows, offset, limit) ==
  LET slice == SubSeq(rows, offset + 1, Min2(offset + limit, Len(rows)))
  IN  IF slice = << >> THEN JList(<< >>) ELSE JList(<< Header >> \o slice)

AvailRequest(u) == SafeRequest(Script(u.avail.status, JsonOk(u.avail.body)), FALSE).value
CdxRequest(u, offset, lim) ==
  SafeRequest(Script(u.cdxStatus, JsonOk(CdxBody(u.rows, offset, lim))), TRUE).value
TimemapRequest(u) ==
  SafeRequest(Script(u.timemap.status, TextOk(JStr(u.timemap.count = 0, u.timemap.count))),
              FALSE).value

\* The while loop of lines 124-165 run to its end (lim >= 1: every page that
\* does not end the loop moves the offset past rows the upstream holds).
RECURSIVE CdxLoop(_, _, _, _)
CdxLoop(u, recs, off, lim) ==
  LET r == CdxIter(CdxRequest(u, off, lim), recs, off, lim)
  IN  IF r.stop THEN r.records ELSE CdxLoop(u, r.records, r.offset, lim)

\* analyze_domain as a whole: raised says that it raised, and info is the
\* dict it returned otherwise.  analysis_time_sec, wall-clock time, is left out.
AnalyzeDomain(domain, u, lim) ==
  LET avail == AvailRequest(u)
      recs == CdxLoop(u, << >>, 0, lim)
      i1 == SetKeys([domain |-> domain], AvailInfo(avail))
      i2 == SetKeys(i1, [total_snapshots |-> Len(recs),
                         timemap_count |-> TimemapCount(TimemapRequest(u))])
      i3 == SetKeys(i2, Metrics(recs))
  IN  IF AvailRaises(avail) THEN [raised |-> TRUE, info |-> [domain |-> domain]]
      ELSE [raised |-> FALSE, info |-> SetKeys(i3, Flags(i3))]

\* ------------------------------------------------------ generate_report
\* Thresholds of the long-live filter (lines 270-274).
LONG_LIVE_MIN_SNAPSHOTS == 5
LONG_LIVE_MIN_YEARS == 3
LONG_LIVE_MAX_AVG == 90
LONG_LIVE_MAX_GAP == 180
LONG_LIVE_MIN_TIMEMAP == 200

RequiredColsLongLive ==
  {"total_snapshots", "years_covered", "avg_interval_days", "max_gap_days", "timemap_count"}

\* df.columns of pd.DataFrame(results): the keys of all the dicts.
Columns(res) == UNION {DOMAIN res[i] : i \in DOMAIN res}

\* LongLive without the test of the largest gap.
LongLiveIgnoringGap(rec) ==
  /\ rec.total_snapshots >= LONG_LIVE_MIN_SNAPSHOTS
  /\ ~IsNone(rec.years_covered) /\ Val(rec.years_covered) >= LONG_LIVE_MIN_YEARS
  /\ ~IsNone(rec.avg_interval_days)
  /\ Val(rec.avg_interval_days) < LONG_LIVE_MAX_AVG * 100
  /\ rec.timemap_count > LONG_LIVE_MIN_TIMEMAP

\* LongLive with a timemap count of 200 enough.
LongLiveTimemapInclusive(rec) ==
  /\ rec.total_snapshots >= LONG_LIVE_MIN_SNAPSHOTS
  /\ ~IsNone(rec.years_covered) /\ Val(rec.years_covered) >= LONG_LIVE_MIN_YEARS
  /\ ~IsNone(rec.avg_interval_days)
  /\ Val(rec.avg_interval_days) < LONG_LIVE_MAX_AVG * 100
  /\ ~IsNone(rec.max_gap_days) /\ Val(rec.max_gap_days) < LONG_LIVE_MAX_GAP
  /\ rec.timemap_count >= LONG_LIVE_MIN_TIMEMAP

\* Lines 262-275 on one row: fillna(0) makes an absent count fail its >=
\* test and fillna(inf) makes an absent average or gap fail its < test.
LongLive(rec) ==
  /\ rec.total_snapshots >= LONG_LIVE_MIN_SNAPSHOTS
  /\ ~IsNone(rec.years_covered) /\ Val(rec.years_covered) >= LONG_LIVE_MIN_YEARS
  /\ ~IsNone(rec.avg_interval_days)
  /\ Val(rec.avg_interval_days) < LONG_LIVE_MAX_AVG * 100
  /\ ~IsNone(rec.max_gap_days) /\ Val(rec.max_gap_days) < LONG_LIVE_MAX_GAP
  /\ rec.timemap_count > LONG_LIVE_MIN_TIMEMAP

\* ReportResult failing also when no domain passes the long-live filter.
ReportResultNeedingLongLive(res, count, saveRaises) ==
  IF res = << >> \/ \A i \in DOMAIN res : ~LongLive(res[i])
  THEN [success |-> FALSE, error |-> "No results gathered", domains_count |-> count]
  ELSE IF saveRaises
  THEN [success |-> FALSE, error |-> "Error saving reports", domains_count |-> count]
  ELSE [success |-> TRUE, domains_count |-> count, analyzed_count |-> Len(res),
        long_live_count |-> Cardinality({i \in DOMAIN res : LongLive(res[i])})]

\* Lines 249-334: what generate_report returns once the tasks are collected.
\* saveRaises says that writing the report files raised (line 328).
ReportResult(res, count, saveRaises) ==
  IF res = << >>
  THEN [success |-> FALSE, error |-> "No results gathered", domains_count |-> count]
  ELSE IF ~(RequiredColsLongLive \subseteq Columns(res))
  THEN [success |-> FALSE, error |-> "Missing columns for long-live report",
        domains_count |-> count]
  ELSE IF saveRaises
  THEN [success |-> FALSE, error |-> "Error saving reports", domains_count |-> count]
  ELSE [success |-> TRUE, domains_count |-> count, analyzed_count |-> Len(res),
        long_live_count |-> Cardinality({i \in DOMAIN res : LongLive(res[i])})]

\* -------------------------------------------------------------- state
VARIABLES
  domains,      \* generate_report: the number of entries of the input list
  concurrency,  \* generate_report: the concurrency argument
  limit,        \* the limit argument (page size) of both functions
  fixture,      \* the upstream each domain's requests meet
  semaphore,    \* the value of asyncio.Semaphore(concurrency)
  tasks,        \* per domain task: "waiting", "running", "returned", "raised"
  outcome,      \* per domain task: the dict analyze_domain returned
  completed,    \* tasks in the order they finished, not yet taken by the loop
  results,      \* the results list
  gpc,          \* generate_report: "start", "collect", "report", "done"
  ret,          \* what generate_report returned
  files,        \* the report files: "none", "written", "failed"
  up,           \* analyze_domain alone: the upstream it meets
  apc,          \* analyze_domain alone: "avail", "cdx", "timemap", "metrics",
                \* "flags", "done", "raised"
  info,         \* analyze_domain alone: the info dict
  records,      \* analyze_domain alone: the records list
  offset,       \* analyze_domain alone: the offset of the next page
  long_live,    \* generate_report: the rows of df_long
  script,       \* safe_request alone: what each attempt meets
  outJson,      \* safe_request alone: params["output"] == "json"
  attempt,      \* safe_request alone: the loop variable
  made,         \* safe_request alone: the session.request calls made
  slept,        \* safe_request alone: the seconds of asyncio.sleep so far
  fpc,          \* safe_request alone: "request", "returned", "raised"
  fret,         \* safe_request alone: the value returned
  seen,         \* history: the classifications of the records of earlier calls
  requested,    \* history: the upstream requests of one analysis, in order
  cdx,          \* pagination alone: the capture index upstream
  batch,        \* pagination alone: what safe_request returned for the page
  fetched,      \* pagination alone: len(records)
  ppc,          \* pagination alone: "cdx" (in the loop), "done"
  api_key,      \* OpenRouterService: self.api_key
  settings,     \* OpenRouterService: self.settings["api_key"]
  config_file,  \* OpenRouterService: the api_key of the saved settings file
  models_cache, \* OpenRouterService: the key whose model list is cached
  upd           \* update_api_key: per call, its position and locals

batchVars == << domains, concurrency, fixture, semaphore, tasks, outcome, completed,
                results, gpc, ret, files, long_live >>
analyzeVars == << up, apc, info, records, offset >>
fetchVars == << script, outJson, attempt, made, slept, fpc, fret >>
pagingVars == << cdx, batch, fetched, ppc >>
keyVars == << api_key, settings, config_file, models_cache, upd >>
vars == << batchVars, analyzeVars, limit, fetchVars, seen, requested, pagingVars, keyVars >>

NoReturn == [success |-> FALSE, error |-> "not returned", domains_count |-> 0]

\* The upstreams the batch runs meet: one that answers every request with
\* dated captures, one that answers every request with HTTP 500, one whose
\* availability answer makes analyze_domain raise, one with no capture.
UpGood ==
  [avail |-> [status |-> 200, body |-> AvClosest], cdxStatus |-> 200,
   rows |-> << Row(TsA, "u1", "d1"), Row(TsB, "u1", "d1"), Row(TsC, "u2", "d2") >>,
   timemap |-> [status |-> 200, count |-> 201]]
UpAll500 ==
  [avail |-> [status |-> 500, body |-> AvNoClosest], cdxStatus |-> 500,
   rows |-> << >>, timemap |-> [status |-> 500, count |-> 0]]
UpRaises ==
  [avail |-> [status |-> 200, body |-> AvNotDict], cdxStatus |-> 200,
   rows |-> << Row(TsA, "u1", "d1") >>, timemap |-> [status |-> 200, count |-> 201]]
UpNoCapture ==
  [avail |-> [status |-> 200, body |-> AvNoClosest], cdxStatus |-> 200,
   rows |-> << >>, timemap |-> [status |-> 200, count |-> 200]]

BatchUps == {UpGood, UpAll500, UpRaises, UpNoCapture}
BatchLimit == 2

FetchIdle ==
  /\ script = << >> /\ outJson = FALSE /\ attempt = 0 /\ made = 0 /\ slept = 0
  /\ fpc = "idle" /\ fret = None /\ seen = {}

AnalyzeIdle ==
  /\ up = UpNoCapture /\ apc = "idle" /\ info = << >> /\ records = << >> /\ offset = 0

\* No response: safe_request returned None.
NoBatch == [kind |-> "none", header |-> FALSE, rows |-> 0, bad |-> 0]

\* A capture index that answers no request.
CdxDown == [mode |-> "down", held |-> 0, rows |-> 0, bad |-> 0]

PagingIdle ==
  /\ requested = << >> /\ cdx = CdxDown /\ batch = NoBatch /\ fetched = 0
  /\ ppc = "idle"

KeysIdle ==
  /\ api_key = "" /\ settings = "" /\ config_file = "" /\ models_cache = None
  /\ upd = << >>

BatchIdle ==
  /\ domains = 0 /\ concurrency = 1 /\ fixture = << >> /\ semaphore = 0
  /\ tasks = << >> /\ outcome = << >> /\ completed = << >> /\ results = << >>
  /\ gpc = "idle" /\ ret = NoReturn /\ files = "none" /\ long_live = << >>

\* ------------------------------------------- generate_report, stepwise
InitBatch(counts) ==
  /\ domains \in counts
  /\ concurrency \in 1..MaxConc
  /\ limit = BatchLimit
  /\ fixture \in [1..domains -> BatchUps]
  /\ semaphore = 0
  /\ tasks = [i \in 1..domains |-> "unborn"]
  /\ outcome = [i \in 1..domains |-> << >>]
  /\ completed = << >>
  /\ results = << >>
  /\ gpc = "start"
  /\ ret = NoReturn
  /\ files = "none"
  /\ long_live = << >>
  /\ AnalyzeIdle
  /\ FetchIdle
  /\ PagingIdle
  /\ KeysIdle

Init == InitBatch(0..MaxDomains)

\* Lines 220-222.
ReturnNoDomains ==
  /\ gpc = "start" /\ domains = 0
  /\ ret' = [success |-> FALSE, error |-> "No domains provided", domains_count |-> 0]
  /\ gpc' = "done"
  /\ UNCHANGED << long_live, domains, concurrency, fixture, semaphore, tasks, outcome, completed,
                  results, files, analyzeVars, limit, fetchVars, seen, requested, pagingVars, keyVars >>

\* Lines 225-237: the semaphore and one task per domain.
Launch ==
  /\ gpc = "start" /\ domains > 0
  /\ semaphore' = concurrency
  /\ tasks' = [i \in 1..domains |-> "waiting"]
  /\ gpc' = "collect"
  /\ UNCHANGED << long_live, domains, concurrency, fixture, outcome, completed, results, ret,
                  files, analyzeVars, limit, fetchVars, seen, requested, pagingVars, keyVars >>

\* Line 230: a task enters `async with semaphore`.
\* CanAcquire of a semaphore that admits every task.
CanAcquireAlways == TRUE

CanAcquire == semaphore > 0

\* The tasks run on the event loop while generate_report awaits them, and
\* after a cancellation of generate_report as well: nothing cancels them.
TasksAlive == gpc \in {"collect", "cancelled"}

Acquire(i) ==
  /\ TasksAlive /\ tasks[i] = "waiting"
  /\ CanAcquire
  /\ semaphore' = semaphore - 1
  /\ tasks' = [tasks EXCEPT ![i] = "running"]
  /\ UNCHANGED << long_live, domains, concurrency, fixture, outcome, completed, results, gpc, ret,
                  files, analyzeVars, limit, fetchVars, seen, requested, pagingVars, keyVars >>

\* Leaving `async with semaphore` without giving the permit back.
ReleasedNever(s) == s

\* Line 230: leaving `async with semaphore`, by a return or by an exception,
\* releases the permit.
Released(s) == s + 1

\* Line 231: analyze_domain returns its dict; leaving `async with` releases.
ReturnInfo(i) ==
  /\ gpc = "collect" /\ tasks[i] = "running"
  /\ LET a == AnalyzeDomain(i, fixture[i], limit)
     IN  /\ ~a.raised
         /\ outcome' = [outcome EXCEPT ![i] = a.info]
  /\ tasks' = [tasks EXCEPT ![i] = "returned"]
  /\ semaphore' = Released(semaphore)
  /\ completed' = Append(completed, i)
  /\ UNCHANGED << long_live, domains, concurrency, fixture, results, gpc, ret, files, analyzeVars,
                  limit, fetchVars, seen, requested, pagingVars, keyVars >>

\* Line 231: analyze_domain raises; leaving `async with` releases and the
\* exception becomes the task's.
RaiseError(i) ==
  /\ gpc = "collect" /\ tasks[i] = "running"
  /\ AnalyzeDomain(i, fixture[i], limit).raised
  /\ tasks' = [tasks EXCEPT ![i] = "raised"]
  /\ semaphore' = Released(semaphore)
  /\ completed' = Append(completed, i)
  /\ UNCHANGED << long_live, domains, concurrency, fixture, outcome, results, gpc, ret, files,
                  analyzeVars, limit, fetchVars, seen, requested, pagingVars, keyVars >>

\* Lines 239-247: the loop takes the next finished task; a dict is appended
\* (every dict analyze_domain returns holds keys, so it is truthy) and an
\* exception is logged.
\* Collected of a loop that an exception empties.
CollectedLosingAll(res, i) == IF tasks[i] = "returned" THEN Append(res, outcome[i]) ELSE << >>

Collected(res, i) == IF tasks[i] = "returned" THEN Append(res, outcome[i]) ELSE res

Collect ==
  /\ gpc = "collect" /\ completed # << >>
  /\ results' = Collected(results, Head(completed))
  /\ completed' = Tail(completed)
  /\ tasks' = [tasks EXCEPT ![Head(completed)] =
                 IF @ = "returned" THEN "collected" ELSE "dropped"]
  /\ gpc' = IF \A i \in 1..domains : tasks'[i] \in {"collected", "dropped"}
            THEN "report" ELSE "collect"
  /\ UNCHANGED << long_live, domains, concurrency, fixture, semaphore, outcome, ret, files,
                  analyzeVars, limit, fetchVars, seen, requested, pagingVars, keyVars >>

\* Lines 249-334.
\* Whether the try block of lines 278-327, which writes the files, is entered.
Saves(res) == res # << >> /\ RequiredColsLongLive \subseteq Columns(res)

\* Lines 268-274: df_long, the rows of df that pass the filter, in df's order.
LongLiveRows(res) == SelectSeq(res, LongLive)

Report ==
  /\ gpc = "report"
  /\ \E saveRaises \in (IF Saves(results) THEN BOOLEAN ELSE {FALSE}) :
       /\ ret' = ReportResult(results, domains, saveRaises)
       /\ files' = IF ~Saves(results) THEN "none"
                   ELSE IF saveRaises THEN "failed" ELSE "written"
  /\ long_live' = IF Saves(results) THEN LongLiveRows(results) ELSE << >>
  /\ gpc' = "done"
  /\ UNCHANGED << domains, concurrency, fixture, semaphore, tasks, outcome, completed,
                  results, analyzeVars, limit, fetchVars, seen, requested, pagingVars, keyVars >>

\* Lines 239-241: the caller cancels generate_report (a timeout of
\* asyncio.wait_for, say) while it awaits the next finished task.
\* CancelledError is not an Exception, so line 246 does not catch it: it
\* leaves the session block, which closes the session, and generate_report
\* raises it without returning a report.  The tasks of line 237 are not
\* cancelled.
Cancel ==
  /\ gpc = "collect"
  /\ gpc' = "cancelled"
  /\ UNCHANGED << long_live, domains, concurrency, fixture, semaphore, tasks, outcome,
                  completed, results, ret, files, analyzeVars, limit, fetchVars, seen,
                  requested, pagingVars, keyVars >>

\* Line 231 after the cancellation: a task that was running ends (it returns
\* or raises) and releases its permit; nothing awaits its result.
FinishAfterCancel(i) ==
  /\ gpc = "cancelled" /\ tasks[i] = "running"
  /\ tasks' = [tasks EXCEPT ![i] = "orphaned"]
  /\ semaphore' = Released(semaphore)
  /\ UNCHANGED << long_live, domains, concurrency, fixture, outcome, completed, results,
                  gpc, ret, files, analyzeVars, limit, fetchVars, seen, requested,
                  pagingVars, keyVars >>

Next ==
  \/ ReturnNoDomains
  \/ Launch
  \/ \E i \in 1..domains : Acquire(i)
  \/ \E i \in 1..domains : ReturnInfo(i)
  \/ \E i \in 1..domains : RaiseError(i)
  \/ Collect
  \/ Report

Spec == Init /\ [][Next]_vars

\* Batches whose analyses return without captures or raise.
InitLive ==
  /\ InitBatch(0..MaxDomains)
  /\ \A i \in 1..domains : fixture[i] \in {UpNoCapture, UpRaises}

\* The event loop runs every step that can be taken, and every upstream call
\* completes.
SpecLive == InitLive /\ [][Next]_vars /\ WF_vars(Next)

\* A batch that its caller may cancel.
InitCancel == InitBatch(1..MaxDomains)

NextCancel ==
  \/ Launch
  \/ \E i \in 1..domains : Acquire(i)
  \/ \E i \in 1..domains : ReturnInfo(i)
  \/ \E i \in 1..domains : RaiseError(i)
  \/ Collect
  \/ Report
  \/ Cancel
  \/ \E i \in 1..domains : FinishAfterCancel(i)

SpecCancel == InitCancel /\ [][NextCancel]_vars

\* ------------------------------------------- analyze_domain, stepwise
InitAnalyze ==
  /\ up \in Ups
  /\ limit \in PageSizes
  /\ apc = "avail"
  /\ info = [domain |-> 1]
  /\ records = << >>
  /\ offset = 0
  /\ BatchIdle
  /\ FetchIdle
  /\ PagingIdle
  /\ KeysIdle

\* Lines 99-109.  The history notes each request of the analysis.
AvailStep ==
  /\ apc = "avail"
  /\ LET avail == AvailRequest(up)
     IN  IF AvailRaises(avail)
         THEN apc' = "raised" /\ info' = info
         ELSE apc' = "cdx" /\ info' = SetKeys(info, AvailInfo(avail))
  /\ requested' = Append(requested, [ep |-> "avail", offset |-> 0])
  /\ UNCHANGED << up, records, offset, batchVars, limit, fetchVars, seen, pagingVars, keyVars >>

\* Lines 124-165: one iteration of the pagination loop.
CdxStep ==
  /\ apc = "cdx"
  /\ LET r == CdxIter(CdxRequest(up, offset, limit), records, offset, limit)
     IN  /\ records' = r.records
         /\ offset' = r.offset
         /\ apc' = IF r.stop THEN "timemap" ELSE "cdx"
  /\ requested' = Append(requested, [ep |-> "cdx", offset |-> offset])
  /\ UNCHANGED << up, info, batchVars, limit, fetchVars, seen, pagingVars, keyVars >>

\* Lines 167-171.
TimemapStep ==
  /\ apc = "timemap"
  /\ info' = SetKeys(info, [total_snapshots |-> Len(records),
                            timemap_count |-> TimemapCount(TimemapRequest(up))])
  /\ apc' = "metrics"
  /\ requested' = Append(requested, [ep |-> "timemap", offset |-> 0])
  /\ UNCHANGED << up, records, offset, batchVars, limit, fetchVars, seen, pagingVars, keyVars >>

\* Lines 174-201.
MetricsStep ==
  /\ apc = "metrics"
  /\ info' = SetKeys(info, Metrics(records))
  /\ apc' = "flags"
  /\ UNCHANGED << up, records, offset, batchVars, limit, fetchVars, seen, requested, pagingVars, keyVars >>

\* Lines 204-212.
FlagsStep ==
  /\ apc = "flags"
  /\ info' = SetKeys(info, Flags(info))
  /\ apc' = "done"
  /\ UNCHANGED << up, records, offset, batchVars, limit, fetchVars, seen, requested, pagingVars, keyVars >>

NextAnalyze == AvailStep \/ CdxStep \/ TimemapStep \/ MetricsStep \/ FlagsStep

SpecAnalyze == InitAnalyze /\ [][NextAnalyze]_vars

\* Five domains of which the third meets HTTP 500 on every call.
InitRobust ==
  /\ InitBatch({5})
  /\ fixture = [i \in 1..5 |-> IF i = 3 THEN UpAll500 ELSE UpGood]

\* No list is empty and no analysis raises in these runs.
NextRobust ==
  \/ Launch
  \/ \E i \in 1..domains : Acquire(i)
  \/ \E i \in 1..domains : ReturnInfo(i)
  \/ Collect
  \/ Report

SpecRobust == InitRobust /\ [][NextRobust]_vars

\* ------------------------------------------- classification, call by call
\* The date g days after the date d, for dates of the years 2000 to 2029.
AddDays(d, g) ==
  LET n == Ordinal(d) + g
      first(y, m) == Ordinal([year |-> y, month |-> m, day |-> 1])
      y == CHOOSE c \in 2000..2029 : first(c, 1) <= n /\ n < first(c + 1, 1)
      m == CHOOSE c \in 1..12 : first(y, c) <= n /\ n < first(y, c) + DaysInMonth(y, c)
  IN  [year |-> y, month |-> m, day |-> n - first(y, m) + 1]

\* The rows of a capture history: one capture at noon of the date d and one
\* after each of the gaps (in days), all of one URL and one digest.
HistoryRows(d, gaps) ==
  List([i \in 1..(Len(gaps) + 1) |->
          LET c == AddDays(d, SumSeq(SubSeq(gaps, 1, i - 1)))
          IN  Row(MkTs(c.year, c.month, c.day, 12, 0, 0), "u1", "d1")])

Repeat(g, n) == List([i \in 1..n |-> g])

Day(y, m, d) == [year |-> y, month |-> m, day |-> d]

\* An upstream that answers every request: the capture index with the rows,
\* the timemap with a text that holds "web/" count times.
UpHistory(rows, count) ==
  [avail |-> [status |-> 200, body |-> AvClosest], cdxStatus |-> 200, rows |-> rows,
   timemap |-> [status |-> 200, count |-> count]]

\* The histories one call after the other meets.  Each stands on one side of
\* a threshold of lines 208-209 and 270-274:
\*   1 no capture            2 one capture           3 one undated capture
\*   4 max gap 364           5 max gap 365
\*   6 200 captures, mean 5969/199      7 200 captures, mean 30
\*   8 199 captures, mean 1             9 202 captures, mean 6029/201
\*  10 200 captures, max gap 365       11 200 captures within one year
\*  12 six captures over three years, mean 80, timemap 201
\*  13 the same, timemap 200           14 the same over two years
\*  15 max gap 180     16 max gap 179  17 mean 90     18 mean 449/5
\*  19 three years, mean 73.8, max gap 365
ClassQueue ==
  << UpNoCapture,
     UpHistory(HistoryRows(Day(2000, 1, 1), << >>), 0),
     UpHistory(<< Row(TsBad, "u1", "d1") >>, 201),
     UpHistory(HistoryRows(Day(2000, 1, 1), << 364 >>), 0),
     UpHistory(HistoryRows(Day(2000, 1, 1), << 365 >>), 0),
     UpHistory(HistoryRows(Day(2000, 1, 1), Repeat(30, 198) \o << 29 >>), 201),
     UpHistory(HistoryRows(Day(2000, 1, 1), Repeat(30, 199)), 201),
     UpHistory(HistoryRows(Day(2000, 1, 1), Repeat(1, 198)), 201),
     UpHistory(HistoryRows(Day(2000, 1, 1), Repeat(30, 200) \o << 29 >>), 201),
     UpHistory(HistoryRows(Day(2000, 1, 1), Repeat(1, 198) \o << 365 >>), 201),
     UpHistory(HistoryRows(Day(2000, 1, 1), Repeat(1, 199)), 201),
     UpHistory(HistoryRows(Day(2000, 12, 1), Repeat(80, 5)), 201),
     UpHistory(HistoryRows(Day(2000, 12, 1), Repeat(80, 5)), 200),
     UpHistory(HistoryRows(Day(2000, 1, 1), Repeat(80, 5)), 201),
     UpHistory(HistoryRows(Day(2000, 12, 20), << 180 >> \o Repeat(40, 5)), 201),
     UpHistory(HistoryRows(Day(2000, 12, 20), << 179 >> \o Repeat(40, 4) \o << 41 >>), 201),
     UpHistory(HistoryRows(Day(2000, 12, 1), Repeat(90, 5)), 201),
     UpHistory(HistoryRows(Day(2000, 12, 1), Repeat(90, 4) \o << 89 >>), 201),
     UpHistory(HistoryRows(Day(2000, 12, 31), << 365 >> \o Repeat(1, 4)), 201) >>

\* The default of the limit parameter (line 94).
DEFAULT_LIMIT == 1000

\* The record is a row of df_long.
Selected(rec) == \E j \in DOMAIN long_live : long_live[j] = rec

Axes == {"good", "recommended", "long_live"}

\* The classifications a record satisfies once generate_report has returned.
Exhibits(rec) ==
  {a \in Axes : \/ a = "good" /\ rec.is_good
                \/ a = "recommended" /\ rec.recommended
                \/ a = "long_live" /\ Selected(rec)}

\* generate_report is called with one domain, the first history upstream.
InitClassify ==
  /\ domains = 1
  /\ concurrency = 1
  /\ limit = DEFAULT_LIMIT
  /\ fixture = << ClassQueue[1] >>
  /\ semaphore = 0
  /\ tasks = << "unborn" >>
  /\ outcome = << << >> >>
  /\ completed = << >>
  /\ results = << >>
  /\ gpc = "start"
  /\ ret = NoReturn
  /\ files = "none"
  /\ long_live = << >>
  /\ AnalyzeIdle
  /\ FetchIdle
  /\ PagingIdle
  /\ KeysIdle

\* Lines 214-218: generate_report has returned and is called again, with one
\* domain, the next history upstream; the locals of the call are fresh.  The
\* history variable notes how the records of the call that returned are
\* classified.
NextCall ==
  /\ gpc = "done"
  /\ \E k \in 1..(Len(ClassQueue) - 1) :
       /\ fixture = << ClassQueue[k] >>
       /\ fixture' = << ClassQueue[k + 1] >>
  /\ semaphore' = 0
  /\ tasks' = << "unborn" >>
  /\ outcome' = << << >> >>
  /\ completed' = << >>
  /\ results' = << >>
  /\ gpc' = "start"
  /\ ret' = NoReturn
  /\ files' = "none"
  /\ long_live' = << >>
  /\ seen' = seen \cup {Exhibits(results[k]) : k \in DOMAIN results}
  /\ UNCHANGED << domains, concurrency, analyzeVars, limit, fetchVars, requested,
                  pagingVars, keyVars >>

\* No list is empty and no analysis raises in these runs.
NextClassify ==
  \/ Launch
  \/ \E i \in 1..domains : Acquire(i)
  \/ \E i \in 1..domains : ReturnInfo(i)
  \/ Collect
  \/ Report
  \/ NextCall

SpecClassify == InitClassify /\ [][NextClassify]_vars

\* ------------------------------------------------ safe_request, stepwise
\* What an attempt can meet: a JSON body, an empty body and an undecodable
\* body sent as application/json, a text body, HTTP 400, 404, 429, 500 and
\* 503, a timeout, a connection error and any other exception.
Outcomes ==
  { JsonOk(JBool(TRUE)),
    OkResp(TRUE, TRUE, FALSE, JBool(FALSE), JStr(TRUE, 0)),
    OkResp(TRUE, FALSE, FALSE, JBool(FALSE), JStr(FALSE, 0)),
    TextOk(JStr(FALSE, 1)),
    HttpError(400), HttpError(404), HttpError(429), HttpError(500), HttpError(503),
    Failure("timeout"), Failure("client"), Failure("other") }

InitFetch ==
  /\ script \in [1..RETRY_COUNT -> Outcomes]
  /\ outJson \in BOOLEAN
  /\ attempt = 1
  /\ made = 0
  /\ slept = 0
  /\ fpc = "request"
  /\ fret = None
  /\ seen = {}
  /\ limit = BatchLimit
  /\ BatchIdle
  /\ AnalyzeIdle
  /\ PagingIdle
  /\ KeysIdle

\* The end of the loop body for an attempt that did not return: the handler's
\* sleep, the sleep of lines 87-88, and the next attempt or the end of the loop.
NextAttempt(o) ==
  /\ slept' = slept + HandlerSleep(o, attempt) + LoopSleep(attempt)
  /\ attempt' = IF attempt < RETRY_COUNT THEN attempt + 1 ELSE attempt
  /\ fpc' = IF attempt < RETRY_COUNT THEN "request" ELSE "exhausted"
  /\ fret' = fret

Return(value) ==
  /\ fpc' = "returned"
  /\ fret' = value
  /\ UNCHANGED << attempt, slept >>

\* The attempt of line 47 and what follows it for the outcome o, whose
\* exception, if it is one, the except clause Handler(o) catches.
Attempt(o) ==
  /\ made' = made + 1
  /\ IF Handler(o) = "none"
     THEN fpc' = "raised" /\ UNCHANGED << attempt, slept, fret >>
     ELSE LET r == AttemptReturn(o, outJson, attempt)
          IN  IF r[1] THEN Return(r[2]) ELSE NextAttempt(o)
  /\ UNCHANGED << script, outJson, batchVars, analyzeVars, limit, seen, requested, pagingVars, keyVars >>

\* Lines 46-62: the response passes raise_for_status.
Respond ==
  /\ fpc = "request" /\ script[attempt].kind = "ok"
  /\ Attempt(script[attempt])

\* Lines 63-72: raise_for_status raises ClientResponseError.
OnHttpError ==
  /\ fpc = "request" /\ script[attempt].kind = "http"
  /\ Attempt(script[attempt])

\* Lines 73-86: the request raises a timeout, a client error or another
\* exception.
OnFailure ==
  /\ fpc = "request" /\ script[attempt].kind \notin {"ok", "http"}
  /\ Attempt(script[attempt])

\* Line 89.
ReturnNone ==
  /\ fpc = "exhausted"
  /\ Return(None)
  /\ UNCHANGED << made, script, outJson, batchVars, analyzeVars, limit, seen, requested, pagingVars, keyVars >>

NextFetch == Respond \/ OnHttpError \/ OnFailure \/ ReturnNone

SpecFetch == InitFetch /\ [][NextFetch]_vars

\* ------------------------------- WaybackService.analyze_domain (library)
\* src/services/wayback_service.py, lines 98-146, on the snapshots the
\* library returned: records with the timestamp str of each capture.

\* (a - b).total_seconds() of two datetimes.
DeltaSeconds(a, b) ==
  (Ordinal(a) - Ordinal(b)) * 86400 + (SecondOfDay(a) - SecondOfDay(b))

\* Lines 100-109: the timestamps that are truthy and that strptime accepts
\* (a ValueError skips the snapshot alone), sorted as datetimes.  strptime
\* accepts none of the shorter strings of the model.
WbTimestamps(snapshots) ==
  LET parses(r) == /\ "timestamp" \in DOMAIN r /\ r.timestamp # << >>
                   /\ Len(r.timestamp) = 14 /\ ~IsNone(StrpTime(r.timestamp))
      kept == SelectSeq(snapshots, parses)
      ds == List([i \in 1..Len(kept) |-> Val(StrpTime(kept[i].timestamp))])
      n == Len(ds)
      before(j, i) == ~DateLeq(ds[i], ds[j]) \/ (j < i /\ DateLeq(ds[i], ds[j]) /\ DateLeq(ds[j], ds[i]))
      rank == List([i \in 1..n |-> Cardinality({j \in 1..n : before(j, i)}) + 1])
  IN  List([k \in 1..n |-> ds[CHOOSE i \in 1..n : rank[i] = k]])

\* Lines 112-146.  The floats are held as exact fractions << numerator,
\* denominator >>: avg_interval_days in hundredths of a day (seconds over
\* 864 per interval), max_gap_days in days (seconds over 86400),
\* years_covered in years of 365.25 days (seconds over 31557600).  The keys
\* are absent (None) from the dict of lines 80-88 for a domain without
\* snapshots.
WaybackAnalyze(snapshots) ==
  LET ts == WbTimestamps(snapshots)
      n == Len(ts)
      intervals == List([i \in 1..(n - 1) |-> DeltaSeconds(ts[i + 1], ts[i])])
      k == Len(intervals)
      total == SumSeq(intervals)
      longest == IF k > 0 THEN MaxSeq(intervals) ELSE 0
      span == IF n > 1 THEN DeltaSeconds(ts[n], ts[1]) ELSE 0
  IN  IF snapshots = << >>
      THEN [total_snapshots |-> 0, years_covered |-> None, avg_interval_days |-> None,
            max_gap_days |-> None, is_long_live |-> None]
      ELSE [total_snapshots |-> Len(snapshots),
            years_covered |-> Some(<< span, 31557600 >>),
            avg_interval_days |-> Some(IF k > 0 THEN << total, 864 * k >> ELSE << 0, 1 >>),
            max_gap_days |-> Some(<< longest, 86400 >>),
            is_long_live |-> Some(/\ Len(snapshots) >= 5
                                  /\ span >= 3 * 31557600
                                  /\ (k > 0 => total < 90 * 86400 * k)
                                  /\ longest < 180 * 86400)]

\* ------------------------------------- the pagination loop, by row counts
\* The loop of lines 124-165 with len(records) in place of records.  Of the
\* batch that safe_request returned the loop reads only: whether it is a
\* non-empty list (kind, header, rows), how many data rows follow the header
\* row (rows) and how many of them are malformed and skipped (bad).
EmptyList == [kind |-> "list", header |-> FALSE, rows |-> 0, bad |-> 0]
Page(rows, bad) == [kind |-> "list", header |-> TRUE, rows |-> rows, bad |-> bad]

\* PageIter with `<=` in the test of line 160.
PageIterStoppingOnFullPage(b, n, off, lim) ==
  LET stay(m, o, stop) == [fetched |-> m, offset |-> o, stop |-> stop]
      cur == b.rows - b.bad
  IN  IF b.kind # "list" \/ (~b.header /\ b.rows = 0) THEN stay(n, off, TRUE)
      ELSE IF b.header /\ b.rows = 0 THEN stay(n, off, TRUE)
      ELSE IF cur <= lim THEN stay(n + cur, off, TRUE)
      ELSE stay(n + cur, off + lim, off + lim > MAX_OFFSET /\ lim > 0)

\* PageIter without the test of lines 163-165.
PageIterWithoutCeiling(b, n, off, lim) ==
  LET stay(m, o, stop) == [fetched |-> m, offset |-> o, stop |-> stop]
      cur == b.rows - b.bad
  IN  IF b.kind # "list" \/ (~b.header /\ b.rows = 0) THEN stay(n, off, TRUE)
      ELSE IF b.header /\ b.rows = 0 THEN stay(n, off, TRUE)
      ELSE IF cur < lim THEN stay(n + cur, off, TRUE)
      ELSE stay(n + cur, off + lim, FALSE)

\* One iteration on the batch b with n records so far: lines 128-133 (no
\* list, or an empty one), lines 137-140 (the header row alone), lines
\* 141-155 (the well-formed rows are appended), lines 160-165.
PageIter(b, n, off, lim) ==
  LET stay(m, o, stop) == [fetched |-> m, offset |-> o, stop |-> stop]
      cur == b.rows - b.bad
  IN  IF b.kind # "list" \/ (~b.header /\ b.rows = 0) THEN stay(n, off, TRUE)
      ELSE IF b.header /\ b.rows = 0 THEN stay(n, off, TRUE)
      ELSE IF cur < lim THEN stay(n + cur, off, TRUE)
      ELSE stay(n + cur, off + lim, off + lim > MAX_OFFSET /\ lim > 0)

\* What safe_request returns for the page at off.  An index holds c.held
\* well-formed rows and answers like CdxBody: the rows off+1 .. off+lim it
\* holds after a header row, and [] when there is none.  A fixed upstream
\* answers every request with the same page, whatever off and lim are.
CdxAnswer(c, off, lim) ==
  CASE c.mode = "index" ->
         LET last == Min2(off + lim, c.held)
         IN  IF off >= 0 /\ last > off THEN Page(last - off, 0) ELSE EmptyList
    [] c.mode = "fixed" -> Page(c.rows, c.bad)
    [] OTHER -> NoBatch

\* The most requests the model follows in one loop.
MaxRequests == 9
\* The most rows an index holds when the page size is small.
MaxHeld == 7

\* Page sizes: not positive, small, and large enough for the loop to reach
\* the offset ceiling within MaxRequests requests.
PagingLimits == {-1, 0, 1, 2, 3, 20000, 25000, 50000, 50001}

\* The most records the loop returns with page size lim >= 1: the pages at
\* the offsets 0, lim, ... up to MAX_OFFSET.
Capacity(lim) == lim * (MAX_OFFSET \div lim + 1)

Holdings(lim) ==
  IF lim <= 3 THEN 0..MaxHeld
  ELSE {0, lim - 1, lim, lim + 1, 2 * lim, MAX_OFFSET, MAX_OFFSET + 1,
        Capacity(lim) - 1, Capacity(lim), Capacity(lim) + 1, 3 * MAX_OFFSET}

Indexes(lim) ==
  {[mode |-> "index", held |-> n, rows |-> 0, bad |-> 0] : n \in Holdings(lim)}
  \cup {[mode |-> "fixed", held |-> 0, rows |-> r, bad |-> b] :
          r \in (IF lim >= 1 THEN {lim} ELSE {1, 2}), b \in {0, 1}}
  \cup {CdxDown}

InitPaging ==
  /\ limit \in PagingLimits
  /\ cdx \in Indexes(limit)
  /\ batch = NoBatch
  /\ fetched = 0
  /\ requested = << >>
  /\ ppc = "cdx"
  /\ BatchIdle
  /\ AnalyzeIdle
  /\ FetchIdle
  /\ KeysIdle

\* Lines 124-165: one iteration of the loop, from the request to the end of
\* the loop body.
PageStep ==
  /\ ppc = "cdx" /\ Len(requested) < MaxRequests
  /\ LET b == CdxAnswer(cdx, offset, limit)
         r == PageIter(b, fetched, offset, limit)
     IN  /\ batch' = b
         /\ fetched' = r.fetched
         /\ offset' = r.offset
         /\ ppc' = IF r.stop THEN "done" ELSE "cdx"
  /\ requested' = Append(requested, [ep |-> "cdx", offset |-> offset])
  /\ UNCHANGED << cdx, up, apc, info, records, batchVars, limit, fetchVars, seen, keyVars >>

NextPaging == PageStep

SpecPaging == InitPaging /\ [][NextPaging]_vars

\* --------------------------------------- OpenRouterService.update_api_key
\* src/app/services/ai_service.py, lines 107-188: concurrent calls of
\* update_api_key on one service object.
MaxCallers == 2
Callers == 1..MaxCallers

\* The key the service holds before the calls begin.
InitialKey == "key0"

\* The keys the calls pass: the empty str, keys the provider accepts and keys
\* it rejects.
KeyPool == {"", "valid1", "valid2", "invalid1", "invalid2"}
Accepted(key) == key \in {InitialKey, "valid1", "valid2"}

InitKeys ==
  /\ api_key = InitialKey
  /\ settings = InitialKey
  /\ config_file = InitialKey
  /\ models_cache = None
  /\ upd \in [Callers -> [pc : {"start"}, key : KeyPool, old : {""}, sent : {""},
                          ret : {"none"}]]
  /\ limit = BatchLimit
  /\ BatchIdle
  /\ AnalyzeIdle
  /\ FetchIdle
  /\ PagingIdle

\* Lines 163-164.
RejectEmpty(c) ==
  /\ upd[c].pc = "start" /\ upd[c].key = ""
  /\ upd' = [upd EXCEPT ![c].pc = "returned", ![c].ret = "empty"]
  /\ UNCHANGED << api_key, settings, config_file, models_cache, batchVars, analyzeVars,
                  limit, fetchVars, seen, requested, pagingVars >>

\* Lines 167-174 and 117-135: the old key is kept, the new one installed, and
\* get_available_models runs to its request, whose Authorization header
\* holds self.api_key as it is then; nothing suspends the call before.
Install(c) ==
  /\ upd[c].pc = "start" /\ upd[c].key # ""
  /\ api_key' = upd[c].key
  /\ upd' = [upd EXCEPT ![c].pc = "validating", ![c].old = api_key,
                        ![c].sent = upd[c].key]
  /\ UNCHANGED << settings, config_file, models_cache, batchVars, analyzeVars,
                  limit, fetchVars, seen, requested, pagingVars >>

\* Lines 136-144 and 175-179: the provider answers 200 with a non-empty model
\* list; the list is cached, the key goes into the settings and save_settings
\* writes them (or fails, which it only logs).
ValidationSucceeds(c) ==
  /\ upd[c].pc = "validating" /\ Accepted(upd[c].sent)
  /\ models_cache' = Some([key |-> upd[c].sent, models |-> "some"])
  /\ settings' = upd[c].key
  /\ \E saved \in BOOLEAN : config_file' = IF saved THEN upd[c].key ELSE config_file
  /\ upd' = [upd EXCEPT ![c].pc = "returned", ![c].ret = "updated"]
  /\ UNCHANGED << api_key, batchVars, analyzeVars, limit, fetchVars, seen, requested,
                  pagingVars >>

\* Lines 136-151 and 180-183: status 200 with an empty list (which is cached
\* all the same), another status or a failed request gives no models, and
\* the key kept at line 167 is put back.
ValidationFails(c) ==
  /\ upd[c].pc = "validating"
  /\ api_key' = upd[c].old
  /\ \E status200 \in BOOLEAN :
       models_cache' = IF status200 THEN Some([key |-> upd[c].sent, models |-> "none"])
                       ELSE models_cache
  /\ upd' = [upd EXCEPT ![c].pc = "returned", ![c].ret = "invalid"]
  /\ UNCHANGED << settings, config_file, batchVars, analyzeVars,
                  limit, fetchVars, seen, requested, pagingVars >>

NextKeys ==
  \/ \E c \in Callers : RejectEmpty(c)
  \/ \E c \in Callers : Install(c)
  \/ \E c \in Callers : ValidationSucceeds(c)
  \/ \E c \in Callers : ValidationFails(c)

SpecKeys == InitKeys /\ [][NextKeys]_vars

\* ---------------------------------------------------------------- claims
RunningTasks == {i \in 1..domains : tasks[i] = "running"}
RecordsOf(i) == {k \in DOMAIN results : results[k].domain = i}

\* C1: for every input list generate_report collects exactly one record per
\* entry, and the record of a domain whose analysis raised has `error` set.
C1_OneRecordPerDomain ==
  gpc = "done" /\ domains > 0 =>
    /\ Len(results) = domains
    /\ \A i \in 1..domains :
         \E k \in RecordsOf(i) :
           AnalyzeDomain(i, fixture[i], limit).raised => "error" \in DOMAIN results[k]

FullyPopulated(rec) ==
  /\ StatKeys \subseteq DOMAIN rec
  /\ \A k \in StatKeys : ~IsNone(rec[k])

\* C2: of five domains whose third meets HTTP 500 on every call, the batch
\* returns five records, the third domain's with `error` set and the other
\* four fully populated.
C2_FailedDomainHasError ==
  gpc = "done" =>
    /\ Len(results) = 5
    /\ \A k \in DOMAIN results :
         IF results[k].domain = 3 THEN "error" \in DOMAIN results[k]
         ELSE FullyPopulated(results[k])

\* What the code does in the runs of C2: five records, none with an `error`
\* key, the third domain's with no capture and no statistic, the other four
\* fully populated.
FailedDomainLooksEmpty ==
  gpc = "done" =>
    /\ Len(results) = 5
    /\ \A k \in DOMAIN results :
         /\ "error" \notin DOMAIN results[k]
         /\ IF results[k].domain = 3
            THEN /\ results[k].total_snapshots = 0
                 /\ \A key \in StatKeys : IsNone(results[k][key])
            ELSE FullyPopulated(results[k])

\* C3: a task that raises does not abort generate_report: the permit it held
\* is released (the semaphore counts exactly the running tasks), its domain
\* has no record, every task is awaited, and the record of every domain whose
\* analysis returned is in the results.
C3_RaisingTaskIsOmitted ==
  /\ gpc \in {"collect", "report", "done"} /\ domains > 0 =>
       semaphore = concurrency - Cardinality(RunningTasks)
  /\ \A i \in 1..domains :
       /\ tasks[i] \in {"raised", "dropped"} => RecordsOf(i) = {}
       /\ tasks[i] = "collected" => \E k \in RecordsOf(i) : results[k] = outcome[i]
  /\ gpc \in {"report", "done"} =>
       \A i \in 1..domains : tasks[i] \in {"collected", "dropped"}

C3_Witness ==
  /\ gpc = "done"
  /\ \E i \in 1..domains : tasks[i] = "dropped"
  /\ \E i \in 1..domains : tasks[i] = "collected" /\ RecordsOf(i) # {}
  /\ semaphore = concurrency

C5_InFlightBounded == Cardinality(RunningTasks) <= concurrency

C5_Witness ==
  /\ Cardinality(RunningTasks) = concurrency
  /\ concurrency >= 2
  /\ \E i \in 1..domains : tasks[i] = "waiting"

DerivedKeys == {"avg_interval_days", "max_gap_days", "years_covered", "unique_versions",
                "first_snapshot", "last_snapshot"}

\* C6: a record with total_snapshots = 0 has avg_interval_days, max_gap_days,
\* years_covered, unique_versions, first_snapshot and last_snapshot absent.
C6_NoSnapshotsNoStatistics ==
  apc = "done" /\ info.total_snapshots = 0 =>
    \A k \in DerivedKeys : k \in DOMAIN info /\ IsNone(info[k])

C6_Witness ==
  /\ apc = "done" /\ info.total_snapshots = 0
  /\ up.cdxStatus = 200 /\ up.rows # << >>
  /\ IsNone(info.max_gap_days)

\* C7: a record from a non-empty capture set has first_snapshot <=
\* last_snapshot and years_covered <= last_snapshot.year - first_snapshot.year + 1.
C7_FirstBeforeLast ==
  apc = "done" /\ ~IsNone(info.first_snapshot) =>
    /\ DateLeq(Val(info.first_snapshot), Val(info.last_snapshot))
    /\ Val(info.years_covered) <=
         Val(info.last_snapshot).year - Val(info.first_snapshot).year + 1

\* What the code does for C7: the order of first_snapshot and last_snapshot
\* holds when every parsed timestamp is made of digits alone, and the years
\* bound holds always.
AllDigits(ts) == \A i \in DOMAIN ts : IsDigit(ts[i])

FirstBeforeLastForDigits ==
  apc = "done" /\ ~IsNone(info.first_snapshot) =>
    /\ (\A i \in DOMAIN records : AllDigits(records[i].timestamp)) =>
         DateLeq(Val(info.first_snapshot), Val(info.last_snapshot))
    /\ Val(info.years_covered) <=
         Val(info.last_snapshot).year - Val(info.first_snapshot).year + 1

\* The records with one record kept per (timestamp, original URL).
RECURSIVE DedupCaptures(_)
DedupCaptures(recs) ==
  IF recs = << >> THEN << >>
  ELSE LET r == recs[Len(recs)]
           front == SubSeq(recs, 1, Len(recs) - 1)
           dup == \E i \in DOMAIN front :
                    front[i].timestamp = r.timestamp /\ front[i].original = r.original
       IN  IF dup THEN DedupCaptures(front) ELSE Append(DedupCaptures(front), r)

\* C8: captures are deduplicated by (timestamp, original URL) before the
\* statistics: total_snapshots and every statistic are those of the
\* deduplicated records.
C8_DeduplicatedBeforeStatistics ==
  apc = "done" =>
    /\ info.total_snapshots = Len(DedupCaptures(records))
    /\ \A k \in StatKeys : info[k] = Metrics(DedupCaptures(records))[k]

Parseable(r) == Len(r.timestamp) = 14 /\ ~IsNone(StrpTime(r.timestamp))

\* C9: a row whose timestamp cannot be parsed is dropped: the statistics are
\* those of the rows with valid timestamps.
C9_UnparseableRowsDropped ==
  apc = "done" /\ (\E i \in DOMAIN records : Parseable(records[i])) =>
    /\ \A k \in {"first_snapshot", "last_snapshot", "avg_interval_days", "max_gap_days",
                 "years_covered"} :
         info[k] = Metrics(SelectSeq(records, Parseable))[k]
    /\ ~IsNone(info.unique_versions)

\* C10: avg_interval_days is the mean (to two decimals) of the gaps between
\* consecutive dated captures, and it is absent when the domain has exactly
\* one dated capture.
C10_AverageIsMeanOrAbsent ==
  apc = "done" /\ ~IsNone(info.first_snapshot) =>
    LET parsed == ParsedTimes(records)
        gaps == Gaps([i \in 1..Len(parsed) |-> Val(parsed[i])])
    IN  IF gaps = << >> THEN IsNone(info.avg_interval_days)
        ELSE info.avg_interval_days = Some(RoundedMean100(SumSeq(gaps), Len(gaps)))

\* C11: in every record is_good is true exactly when total_snapshots >= 1 and
\* max_gap_days is present and below 365; with max_gap_days absent is_good is
\* false.
C11_GoodIffCapturedWithoutYearGap ==
  \A k \in DOMAIN results :
    /\ results[k].is_good <=>
         /\ results[k].total_snapshots >= 1
         /\ ~IsNone(results[k].max_gap_days)
         /\ Val(results[k].max_gap_days) < 365
    /\ IsNone(results[k].max_gap_days) => ~results[k].is_good

C11_Witness ==
  /\ gpc = "done"
  /\ \E k \in DOMAIN results :
       /\ results[k].total_snapshots = 2
       /\ results[k].max_gap_days = Some(364)
       /\ results[k].is_good

\* The gaps in days between the consecutive dated captures of the domain of
\* a record, as lines 176-181 compute them from what the upstream holds.
GapsOf(rec) ==
  LET parsed == ParsedTimes(CdxLoop(fixture[rec.domain], << >>, 0, limit))
  IN  Gaps(List([i \in 1..Len(parsed) |-> Val(parsed[i])]))

\* C12: for every domain with at least 200 captures, recommended is true
\* exactly when the mean gap between consecutive captures is strictly less
\* than 30 days.
C12_RecommendedIffMeanBelow30 ==
  gpc = "done" =>
    \A k \in DOMAIN results :
      results[k].total_snapshots >= 200 =>
        (results[k].recommended <=> SumSeq(GapsOf(results[k])) < 30 * Len(GapsOf(results[k])))

\* What the code does for C12: recommended compares the mean rounded to two
\* decimals, so a mean from 29.995 up to 30 is not recommended.
RecommendedOnRoundedMean ==
  gpc = "done" =>
    \A k \in DOMAIN results :
      results[k].total_snapshots >= 200 =>
        (results[k].recommended <=>
           RoundedMean100(SumSeq(GapsOf(results[k])), Len(GapsOf(results[k]))) < 3000)

\* C13: a domain is selected into the long-live report exactly when
\* total_snapshots >= 5, years_covered >= 3, avg_interval_days < 90,
\* max_gap_days < 180 and timemap_count > 200, and a domain whose statistics
\* are absent is never selected.
C13_LongLiveIffAllFiveThresholds ==
  gpc = "done" =>
    /\ \A k \in DOMAIN results :
         LET rec == results[k]
             present == /\ ~IsNone(rec.years_covered)
                        /\ ~IsNone(rec.avg_interval_days)
                        /\ ~IsNone(rec.max_gap_days)
         IN  /\ Selected(rec) <=>
                  /\ present
                  /\ rec.total_snapshots >= 5
                  /\ Val(rec.years_covered) >= 3
                  /\ Val(rec.avg_interval_days) < 90 * 100
                  /\ Val(rec.max_gap_days) < 180
                  /\ rec.timemap_count > 200
             /\ ~present => ~Selected(rec)
    /\ \A j \in DOMAIN long_live : \E k \in DOMAIN results : results[k] = long_live[j]
    /\ ret.success => ret.long_live_count = Len(long_live)

C13_Witness ==
  /\ gpc = "done" /\ files = "written" /\ ret.success /\ ret.long_live_count = 1
  /\ \E k \in DOMAIN results :
       /\ Selected(results[k])
       /\ results[k].total_snapshots = 7
       /\ results[k].max_gap_days = Some(179)
       /\ results[k].timemap_count = 201

Reached(s) == gpc = "done" /\ \E k \in DOMAIN results : Exhibits(results[k]) = s

\* The call on the last of the histories has returned.
AllCallsReturned == gpc = "done" /\ fixture = << ClassQueue[Len(ClassQueue)] >>

\* The classifications met by the records of the calls that returned.
Met == seen \cup {Exhibits(results[k]) : k \in DOMAIN results}

\* C14, as stated: good, recommended and long-live are independent axes: each
\* of the eight subsets of the three is satisfied by the record of some
\* capture history and timemap count (once the calls on all the histories
\* have returned, every subset has been met).
C14_EverySubsetReached == AllCallsReturned => Met = SUBSET Axes

\* C14, amended: every long-live record is good (a largest gap below 180
\* days is below 365, and five captures are at least one); each of the six
\* subsets that do not hold long-live without good is satisfied by the record
\* of some capture history and timemap count (once the calls on all the
\* histories have returned, exactly these six have been met).
C14_LongLiveImpliesGood ==
  /\ gpc = "done" => \A k \in DOMAIN results : Selected(results[k]) => results[k].is_good
  /\ \A s \in seen : "long_live" \in s => "good" \in s
  /\ AllCallsReturned => Met = {t \in SUBSET Axes : "long_live" \in t => "good" \in t}

C14_Witness == Reached(Axes) /\ files = "written"

AvailKeys == {"has_snapshot", "availability_ts"}
TimemapKeys == {"timemap_count"}
CaptureKeys == {"total_snapshots", "is_good", "recommended"} \cup StatKeys

\* The two dicts hold the same keys and agree on every key outside `keys`.
AgreeOutside(a, b, keys) ==
  /\ DOMAIN a = DOMAIN b
  /\ \A k \in DOMAIN a \ keys : a[k] = b[k]

\* A sub-query failed: every attempt met an HTTP error, or the availability
\* answer is not of the shape the endpoint documents.
AvailFailed(u) == u.avail.status # 200 \/ u.avail.body = AvNotDict
CdxFailed(u) == u.cdxStatus # 200
TimemapFailed(u) == u.timemap.status # 200

\* The upstream with one sub-query answered.
WithAvail(u) == [u EXCEPT !.avail = [status |-> 200, body |-> AvClosest]]
WithCdx(u) == [u EXCEPT !.cdxStatus = 200, !.rows = << Row(TsA, "u1", "d1") >>]
WithTimemap(u) == [u EXCEPT !.timemap = [status |-> 200, count |-> 201]]

\* C15: the three sub-queries are independently fault-tolerant: when one of
\* them failed the analysis still returns a record, and the fields derived
\* from the other two are what they would be had the failed one succeeded.
C15_SubQueriesIndependent ==
  apc \in {"done", "raised"} =>
    /\ AvailFailed(up) /\ ~CdxFailed(up) /\ ~TimemapFailed(up) =>
         /\ apc = "done"
         /\ AgreeOutside(info, AnalyzeDomain(1, WithAvail(up), limit).info, AvailKeys)
    /\ CdxFailed(up) /\ ~AvailFailed(up) /\ ~TimemapFailed(up) =>
         /\ apc = "done"
         /\ AgreeOutside(info, AnalyzeDomain(1, WithCdx(up), limit).info, CaptureKeys)
    /\ TimemapFailed(up) /\ ~AvailFailed(up) /\ ~CdxFailed(up) =>
         /\ apc = "done"
         /\ AgreeOutside(info, AnalyzeDomain(1, WithTimemap(up), limit).info, TimemapKeys)

\* What the code does for C15: a sub-query whose every attempt met an HTTP
\* error degrades its own fields and leaves the others as they are.
SubQueriesIndependentOnHttpError ==
  apc = "done" =>
    LET noAvail == AnalyzeDomain(1, [up EXCEPT !.avail.status = 500], limit)
        noCdx == AnalyzeDomain(1, [up EXCEPT !.cdxStatus = 500], limit)
        noTimemap == AnalyzeDomain(1, [up EXCEPT !.timemap.status = 500], limit)
    IN  /\ ~noAvail.raised /\ AgreeOutside(info, noAvail.info, AvailKeys)
        /\ ~noAvail.info.has_snapshot /\ IsNone(noAvail.info.availability_ts)
        /\ ~noCdx.raised /\ AgreeOutside(info, noCdx.info, CaptureKeys)
        /\ noCdx.info.total_snapshots = 0
        /\ \A k \in StatKeys : IsNone(noCdx.info[k])
        /\ ~noTimemap.raised /\ AgreeOutside(info, noTimemap.info, TimemapKeys)
        /\ noTimemap.info.timemap_count = 0

\* The outcome is a failure of the upstream: an HTTP error status, a timeout,
\* a connection error, any other exception, or (on the JSON path) a body
\* that json.loads rejects.
DecodeFails(o) == o.kind = "ok" /\ (outJson \/ o.ctJson) /\ ~o.blank /\ ~o.valid
UpstreamFailure(o) == o.kind # "ok" \/ DecodeFails(o)

\* C16: safe_request never raises to its caller for any upstream failure:
\* once its attempts are exhausted it returns None.
C16_NeverRaises ==
  /\ fpc # "raised"
  /\ fpc = "returned" /\ UpstreamFailure(script[made]) => IsNone(fret)
  /\ fpc = "exhausted" => made = RETRY_COUNT /\ UpstreamFailure(script[made])

C16_Witness ==
  /\ fpc = "returned" /\ IsNone(fret) /\ made = RETRY_COUNT
  /\ script[1].kind = "client" /\ DecodeFails(script[2]) /\ script[3].kind = "other"

Retryable(o) ==
  \/ o.kind = "http" /\ (o.status >= 500 \/ o.status = 429)
  \/ o.kind \in {"client", "timeout"}

\* C17: one call makes at most 3 HTTP attempts, and after an attempt that
\* fails with HTTP 5xx, HTTP 429, a connection error or a timeout it makes a
\* further attempt whenever fewer than 3 have been made.
C17_AtMostThreeAttemptsRetryingTransient ==
  /\ made <= 3
  /\ fpc = "request" => attempt = made + 1
  /\ fpc \in {"returned", "exhausted", "raised"} /\ made < 3 => ~Retryable(script[made])
  /\ \A a \in 1..made : a < made => UpstreamFailure(script[a])

C17_Witness ==
  /\ fpc = "returned" /\ made = 3
  /\ script[1] = HttpError(503) /\ script[2] = Failure("timeout")
  /\ script[3] = JsonOk(JBool(TRUE)) /\ fret = Some(JBool(TRUE))

\* C18: safe_request does not retry after an HTTP 4xx response other than
\* 429: the first such response ends the call, which makes no further attempt
\* and returns None.
C18_ClientErrorStatusIsTerminal ==
  \A a \in 1..made :
    script[a].kind = "http" /\ script[a].status \in 400..499 /\ script[a].status # 429 =>
      made = a /\ fpc = "returned" /\ IsNone(fret)

\* C19: safe_request does not retry after a 200 whose body fails JSON
\* decoding: the decode failure ends the call, which makes no further attempt
\* and returns None.
C19_DecodeFailureIsTerminal ==
  \A a \in 1..made :
    DecodeFails(script[a]) => made = a /\ fpc = "returned" /\ IsNone(fret)

\* What the code does for C18 and C19: a 4xx other than 429 and a body that
\* fails JSON decoding are retried like a timeout, after the sleep of lines
\* 87-88, and end the call only at the third attempt.
PermanentFailuresAreRetried ==
  \A a \in 1..made :
    \/ script[a].kind = "http" /\ script[a].status \in 400..499 /\ script[a].status # 429
    \/ DecodeFails(script[a])
    => IF a < RETRY_COUNT
       THEN made > a \/ (made = a /\ fpc = "request" /\ attempt = a + 1)
       ELSE fpc = "returned" /\ IsNone(fret)

RateLimitedTwice ==
  /\ script[1] = HttpError(429) /\ script[2] = HttpError(429)
  /\ script[3] = JsonOk(JBool(TRUE))

\* C20: with HTTP 429 on attempts 1 and 2 and HTTP 200 on attempt 3,
\* safe_request returns the body of attempt 3 and has slept, before attempt 3,
\* RETRY_DELAY*1*2 + RETRY_DELAY*2*2 seconds.
C20_RateLimitBackoffIsDoubledDelay ==
  RateLimitedTwice /\ fpc = "returned" =>
    /\ made = 3 /\ fret = Some(JBool(TRUE))
    /\ slept = RETRY_DELAY * 1 * 2 + RETRY_DELAY * 2 * 2

\* What the code does for C20: after each 429 the sleep of lines 87-88
\* follows the doubled sleep of line 67, 18 seconds in all.
RateLimitBackoffAddsLoopDelay ==
  RateLimitedTwice /\ fpc = "returned" =>
    /\ made = 3 /\ fret = Some(JBool(TRUE))
    /\ slept = (RETRY_DELAY * 1 * 2 + RETRY_DELAY * 1) + (RETRY_DELAY * 2 * 2 + RETRY_DELAY * 2)

\* The steps compute what SafeRequest, which analyze_domain's model calls,
\* computes.
StepsAgreeWithSafeRequest ==
  fpc = "returned" =>
    LET r == SafeRequest(script, outJson)
    IN  fret = r.value /\ slept = r.slept

\* ------------------------------------------------- claims on pagination
\* C21, as stated: when the capture index holds N well-formed records and
\* answers every request, the loop returns exactly N records and stops after
\* the first page with fewer than pageSize data rows; pageSize rows on page 0
\* and none on page 1 give pageSize records with 2 upstream calls.
C21_PaginationReturnsAllRecords ==
  ppc = "done" /\ cdx.mode = "index" /\ limit >= 1 =>
    /\ fetched = cdx.held
    /\ batch.kind = "list" /\ batch.rows < limit
    /\ Len(requested) = cdx.held \div limit + 1
    /\ cdx.held = limit => fetched = limit /\ Len(requested) = 2

\* C21, amended: the same when N is below pageSize * (50000 \div pageSize + 1),
\* the rows of the pages at the offsets up to the ceiling; an index that
\* holds that many rows or more gives exactly that many records, and the loop
\* stops at the ceiling after a full page.
C21_PaginationReturnsRecordsBelowCeiling ==
  ppc = "done" /\ cdx.mode = "index" /\ limit >= 1 =>
    IF cdx.held < Capacity(limit)
    THEN /\ fetched = cdx.held
         /\ batch.kind = "list" /\ batch.rows < limit
         /\ Len(requested) = cdx.held \div limit + 1
         /\ cdx.held = limit => fetched = limit /\ Len(requested) = 2
    ELSE /\ fetched = Capacity(limit)
         /\ batch.rows = limit
         /\ Len(requested) = MAX_OFFSET \div limit + 1
         /\ offset > MAX_OFFSET

C21_Witness ==
  /\ ppc = "done" /\ cdx.mode = "index" /\ limit = 3 /\ cdx.held = 3
  /\ fetched = 3 /\ batch = EmptyList
  /\ requested = << [ep |-> "cdx", offset |-> 0], [ep |-> "cdx", offset |-> 3] >>

\* C22: for every pageSize >= 1 and every upstream behaviour no capture-index
\* request has an offset above 50,000: once the next offset exceeds the
\* ceiling the loop has ended, even if every page so far was full.
C22_NoRequestBeyondCeiling ==
  limit >= 1 =>
    /\ \A k \in DOMAIN requested : requested[k].offset <= MAX_OFFSET
    /\ offset > MAX_OFFSET => ppc = "done"

C22_Witness ==
  /\ ppc = "done" /\ cdx.mode = "fixed" /\ cdx.bad = 0 /\ limit = 20000
  /\ Len(requested) = 3 /\ requested[3].offset = 40000 /\ offset = 60000
  /\ fetched = 60000

\* A row of the capture index that line 143 accepts.
WellFormed(row) == row.t = "list" /\ Len(row.items) = Len(Header.items)

\* The data rows of the page the upstream of the analysis sends for offset o.
PageRows(o) == SubSeq(up.rows, o + 1, Min2(o + limit, Len(up.rows)))

\* C26: within one analysis the page requests are sequential: the offsets
\* requested are 0, pageSize, 2*pageSize, ... without gap or repeat, a further
\* page is requested only after the page before it was received and was a
\* full page, the availability query comes before the first page request and
\* the timemap query after the last.
C26_PageRequestsSequential ==
  LET n == Len(requested)
      pages == {k \in 1..n : requested[k].ep = "cdx"}
  IN  /\ \A k \in 1..n : (k = 1) = (requested[k].ep = "avail")
      /\ \A k \in 1..n : requested[k].ep = "timemap" =>
           /\ k = n /\ k - 1 \in pages
           /\ apc \in {"metrics", "flags", "done"}
      /\ apc \in {"metrics", "flags", "done"} => requested[n].ep = "timemap"
      /\ \A k \in pages : requested[k].offset = (k - 2) * limit
      /\ apc = "cdx" => offset = Cardinality(pages) * limit
      /\ \A k \in pages : k + 1 \in pages =>
           /\ up.cdxStatus = 200
           /\ Len(SelectSeq(PageRows(requested[k].offset), WellFormed)) = limit

C26_Witness ==
  /\ apc = "done" /\ limit = 1 /\ Len(up.rows) = 3
  /\ requested = << [ep |-> "avail", offset |-> 0], [ep |-> "cdx", offset |-> 0],
                    [ep |-> "cdx", offset |-> 1], [ep |-> "cdx", offset |-> 2],
                    [ep |-> "cdx", offset |-> 3], [ep |-> "timemap", offset |-> 0] >>

\* C27: for every limit, 0 and negative values included, and every upstream
\* behaviour the loop issues finitely many page requests: no iteration that
\* stays in the loop leaves the offset and the records as they were before
\* its request (the same answer to the same request would then be met in
\* the same state, without end).
C27_PaginationTerminates ==
  [][ppc = "cdx" /\ ppc' = "cdx" => << offset', fetched' >> # << offset, fetched >>]_vars

\* What the code does for C27: with a limit of at least 1 every iteration
\* that stays in the loop moves the offset up by limit, and the loop makes at
\* most MAX_OFFSET \div limit + 1 requests; with a limit of 0 or less the
\* offset never moves up, and only a page without well-formed rows or no
\* page at all ends the loop.
PaginationTerminatesForPositiveLimit ==
  /\ limit >= 1 => Len(requested) <= MAX_OFFSET \div limit + 1
  /\ limit >= 1 /\ ppc = "cdx" => offset = Len(requested) * limit
  /\ limit <= 0 /\ ppc = "cdx" =>
       /\ offset = Len(requested) * limit
       /\ \A k \in DOMAIN requested : offset <= requested[k].offset
  /\ limit <= 0 /\ ppc = "done" => batch.kind = "none" \/ batch.rows = 0

\* C28: a page of pageSize data rows of which some are malformed and skipped
\* does not end the enumeration: once the loop has ended, the page after
\* every such page was requested.
C28_MalformedRowsDoNotEndEnumeration ==
  apc \in {"timemap", "metrics", "flags", "done"} =>
    \A k \in DOMAIN requested :
      LET o == requested[k].offset
      IN  /\ requested[k].ep = "cdx" /\ up.cdxStatus = 200
          /\ Len(PageRows(o)) = limit
          /\ \E j \in DOMAIN PageRows(o) : ~WellFormed(PageRows(o)[j])
          => \E m \in DOMAIN requested : requested[m] = [ep |-> "cdx", offset |-> o + limit]

\* What the code does for C28: the test of line 160 counts the rows that were
\* kept, so the loop ends at the first page that holds a malformed row, and
\* the well-formed rows of later pages are never fetched.
EnumerationEndsAtMalformedRow ==
  apc \in {"timemap", "metrics", "flags", "done"} /\ up.cdxStatus = 200 =>
    LET n == Len(up.rows)
        malformed == {j \in 1..n : ~WellFormed(up.rows[j])}
        stop == IF malformed = {} THEN n + 1
                ELSE CHOOSE j \in malformed : \A i \in malformed : j <= i
        \* The rows of the pages up to the one that holds the row `stop`.
        reach == IF stop > n THEN n ELSE Min2(n, ((stop - 1) \div limit + 1) * limit)
    IN  Len(records) = Cardinality({j \in 1..reach : WellFormed(up.rows[j])})

\* The batch as the loop reads it.
BatchCounts(b) ==
  IF IsNone(b) \/ Val(b).t # "list" THEN NoBatch
  ELSE LET items == Val(b).items
           isBad(row) == ~WellFormed(row)
       IN  IF items = << >> THEN EmptyList
           ELSE Page(Len(items) - 1, Len(SelectSeq(Tail(items), isBad)))

\* The loop by row counts computes what CdxIter computes on the rows.
CountsAgreeWithCdxIter ==
  apc = "cdx" =>
    LET b == CdxRequest(up, offset, limit)
        r == CdxIter(b, records, offset, limit)
        p == PageIter(BatchCounts(b), Len(records), offset, limit)
    IN  Len(r.records) = p.fetched /\ r.offset = p.offset /\ r.stop = p.stop

\* ---------------------------------------------------- claims on backoff
ServerError(o) == o.kind = "http" /\ o.status >= 500

\* C25: after attempt k (1 or 2) fails with HTTP 5xx, a timeout or a
\* connection error, the time slept before attempt k+1 starts is
\* RETRY_DELAY * k, the same for the three kinds of failure.
C25_LinearBackoffBetweenAttempts ==
  [][attempt' = attempt + 1
     /\ (ServerError(script[attempt]) \/ script[attempt].kind \in {"timeout", "client"})
     => slept' - slept = RETRY_DELAY * attempt]_vars

\* What the code does for C25: after HTTP 5xx the sleep of line 69 is
\* followed by the sleep of lines 87-88, 2 * RETRY_DELAY * k in all; after a
\* timeout or a connection error the sleep of lines 87-88 is the only one.
BackoffIsTwofoldAfterServerError ==
  [][attempt' = attempt + 1 =>
       /\ ServerError(script[attempt]) =>
            slept' - slept = RETRY_DELAY * attempt + RETRY_DELAY * attempt
       /\ script[attempt].kind \in {"timeout", "client"} =>
            slept' - slept = RETRY_DELAY * attempt]_vars

\* ------------------------------------------- claims on the batch's tasks
\* C24: when the caller cancels a running batch, the tasks that have not
\* started their analysis never start afterwards, and every domain whose
\* analysis was in progress at the cancellation is reported as a record with
\* an error (results is what generate_report has to report: after the
\* cancellation nothing changes it).
C24_CancellationStopsTasksAndReportsErrors ==
  [][/\ gpc = "collect" /\ gpc' = "cancelled" =>
          \A i \in 1..domains : tasks[i] = "running" =>
             \E k \in DOMAIN results' :
                results'[k].domain = i /\ "error" \in DOMAIN results'[k]
     /\ gpc = "cancelled" =>
          \A i \in 1..domains : tasks[i] = "waiting" => tasks'[i] = "waiting"]_vars

\* What the code does for C24: generate_report raises CancelledError and
\* reports nothing, and the tasks go on: a waiting task starts as soon as a
\* permit is free.
CancelledBatchReportsNothing ==
  /\ gpc = "cancelled" => ret = NoReturn /\ files = "none"
  /\ gpc = "cancelled" =>
       \A i \in 1..domains : tasks[i] = "waiting" /\ semaphore > 0 => ENABLED Acquire(i)

\* C29: for every non-empty domain list and every concurrency >= 1, when every
\* upstream call completes, every task acquires a permit and finishes and
\* generate_report leaves its collection loop: no order of completions and
\* failures leaves a task waiting on the semaphore for ever.
C29_EveryTaskFinishes ==
  /\ \A i \in 1..MaxDomains :
       (i <= domains /\ gpc = "collect" /\ tasks[i] = "waiting")
          ~> (i <= domains /\ tasks[i] = "running")
  /\ \A i \in 1..MaxDomains :
       (i <= domains /\ gpc = "collect" /\ tasks[i] = "running")
          ~> (i <= domains /\ tasks[i] \in {"returned", "raised", "collected", "dropped"})
  /\ (gpc = "collect") ~> (gpc = "done")

C29_Witness ==
  /\ gpc = "done" /\ domains = MaxDomains /\ concurrency = 1
  /\ \E i \in 1..domains : tasks[i] = "dropped"
  /\ \E i \in 1..domains : tasks[i] = "collected"

\* ------------------------------------------- claims on the two engines
\* An optional whole number and an optional fraction are the same value.
SameNumber(a, q) ==
  IF IsNone(a) \/ IsNone(q) THEN IsNone(a) /\ IsNone(q)
  ELSE Val(a) * Val(q)[2] = Val(q)[1]

\* C23: the hand-rolled engine (analyze_domain with the long-live filter of
\* generate_report) and the library-based engine give, for the same captures
\* of a domain, the same years_covered, avg_interval_days and max_gap_days
\* and the same long-live classification.
C23_EnginesAgree ==
  apc = "done" =>
    LET wb == WaybackAnalyze(records)
    IN  /\ SameNumber(info.years_covered, wb.years_covered)
        /\ SameNumber(info.avg_interval_days, wb.avg_interval_days)
        /\ SameNumber(info.max_gap_days, wb.max_gap_days)
        /\ LongLive(info) = (~IsNone(wb.is_long_live) /\ Val(wb.is_long_live))

\* What the code does for C23: the engines agree on a domain without
\* captures, and they differ on every domain with a capture that strptime
\* accepts: the library engine measures years_covered as the time from the
\* first capture to the last in years of 365.25 days (0 for one capture),
\* the hand-rolled one counts the calendar years that hold a capture.
EnginesAgreeOnlyWithoutCaptures ==
  apc = "done" =>
    LET wb == WaybackAnalyze(records)
    IN  /\ records = << >> =>
             /\ SameNumber(info.years_covered, wb.years_covered)
             /\ SameNumber(info.avg_interval_days, wb.avg_interval_days)
             /\ SameNumber(info.max_gap_days, wb.max_gap_days)
             /\ ~LongLive(info) /\ IsNone(wb.is_long_live)
        /\ records # << >> => ~SameNumber(info.years_covered, wb.years_covered)
        /\ Len(records) = 1 /\ ~IsNone(info.years_covered) =>
             Val(info.years_covered) = 1 /\ Val(wb.years_covered)[1] = 0

\* --------------------------------------------------- claims on the API key
AllUpdatesReturned == \A c \in Callers : upd[c].pc = "returned"

\* C30: after any interleaving of concurrent update_api_key calls, once all
\* have returned, self.api_key is the key held before the calls began or a
\* key whose validation succeeded: no key that failed validation stays
\* installed.
C30_NoInvalidKeyInstalled ==
  AllUpdatesReturned =>
    \/ api_key = InitialKey
    \/ \E c \in Callers : upd[c].ret = "updated" /\ upd[c].key = api_key

\* What the code does for C30: each call restores the key it found, which
\* may be the key another call installed and has not validated yet; the key
\* left is the initial one or the key of one of the calls, validated or not,
\* and a call alone leaves the initial key or its own validated key.
InstalledKeyIsSomeCallsKey ==
  /\ AllUpdatesReturned =>
       api_key = InitialKey \/ \E c \in Callers : upd[c].key = api_key /\ api_key # ""
  /\ AllUpdatesReturned /\ (\E c \in Callers : \A d \in Callers \ {c} : upd[d].key = "") =>
       C30_NoInvalidKeyInstalled
====
